---- MODULE Spec2Model ----
(***************************************************************************)
(* A model of the live-session engine of tmux-adapter: the pipe-pane       *)
(* manager (internal/tmux), the terminal screen (internal/vt), the agent   *)
(* registry (internal/agents), the prompter lock protocol and the          *)
(* lifecycle broadcast of the WebSocket servers (internal/wsconv,          *)
(* internal/wsadapter).                                                    *)
(*                                                                         *)
(* Each component has its own specification over the shared variable list: *)
(* a component's specification moves its own variables and leaves the      *)
(* others at their initial values.                                         *)
(*   Spec          the pipe-pane manager, its tailers and subscribers      *)
(***************************************************************************)
EXTENDS Integers, Sequences, FiniteSets, TLC

VARIABLES
    \* ---- pipe-pane manager (PipePaneManager, pipeStream) ----
    streams,      \* pm.streams: session -> stream object id, 0 when absent
    nextStream,   \* next stream object to allocate
    nextChan,     \* next channel object to allocate
    strSession,   \* pipeStream.session
    subscribers,  \* pipeStream.subscribers: stream -> set of channels
    cancelled,    \* streams whose context has been cancelled
    tailer,       \* position of the stream's tailFile goroutine
    pending,      \* tailFile's pending accumulator: set of dirty rows, {} = nil
    chanBuf,      \* channel -> queued updates
    chanClosed,   \* channels closed by the sender
    pipeActive,   \* sessions whose pane has an open pipe-pane (multiplexer state)
    files,        \* sessions whose tail file exists on disk
    \* ---- prompter: send-prompt and file-upload requests ----
    nextReq,      \* next request to arrive at the server
    reqAgent,     \* request -> the agent it names ("" before it arrives)
    reqKind,      \* request -> "prompt" or "upload"
    pc,           \* request -> position of its handler / goroutine
    stepIdx,      \* request -> control-channel calls issued so far
    lockOf,       \* request -> the mutex GetLock returned to it ("" before)
    holder,       \* mutex -> the request holding it, 0 when free
    ctrlLog,      \* agent -> the calls the control channel has seen for it, in order
    \* ---- agent registry (Registry) and the consumer of Events() ----
    workDirFilter, \* Registry's workdir filter, a string as a sequence of characters
    skip,          \* Registry's skip list
    agents,        \* Registry's stored map: name -> Agent
    events,        \* the buffered Events() channel
    scanning,      \* TRUE while scan() is emitting the events of its diff
    newAgents,     \* the map the running scan has built
    plan,          \* the events the running scan emits, in order
    emitIdx,       \* how many of them it has emitted
    scans,         \* scans started so far
    gen,           \* name -> number of added events emitted for it
    droppedAdd,    \* names one of whose added events was dropped on a full buffer
    seenAdd,       \* names for which the consumer has received an added
    seenRemGen,    \* name -> the latest life whose removed the consumer received
    updFirst,      \* names whose updated was received before any added
    addAfterRem,   \* names whose added was received after its matching removed
    \* ---- conversation server (wsconv.Server, wsconv.Client) ----
    clients,          \* s.clients: the connected clients
    handshakeDone,    \* c.handshakeDone
    subscribedAgents, \* c.subscribedAgents
    sessionFilter,    \* c.includeSessionFilter, c.excludeSessionFilter
    send,             \* c.send: the client's outbound queue
    unmatched,        \* per client and name: agent-added written since the last agent-removed
    lostRem,          \* per client and name: agent-removed dropped so far on a full buffer or queue
    everFiltered,     \* clients that ever subscribed with a filter
    tracked,          \* clients whose event history (unmatched, lostRem, everFiltered) is kept
    replyDue,         \* per client: "none", or the subscribe-agents handler has stored the flag and
                      \* not yet sent its response ("first": the flag was clear before, "again")
    \* ---- terminal screen (vt.Screen) ----
    term,             \* s.term: the emulator's grid, cursor and pen
    prevRows,         \* s.prevRows: cached rendered rows
    ret,              \* what the last Write or Snapshot returned
    writes,           \* calls of Write and Snapshot so far
    \* ---- callers of one Screen (goroutines in Write / Snapshot) ----
    scrMu,            \* s.mu: the caller holding it, "" when free
    scrPc,            \* caller -> where it is in Write / Snapshot
    scrArg,           \* caller -> the call it makes
    scrY,             \* caller -> y of its loop over the rows
    scrUpd,           \* caller -> the rows collected so far
    \* ---- one stream's tailFile goroutines and its subscribers, with row content ----
    tlSubs,           \* stream.subscribers
    tlChan,           \* channel -> updates buffered in it
    tlView,           \* channel -> row map its reader holds (snapshot + updates)
    tlUpd,            \* update Screen.Write returned, not yet merged
    tlPending,        \* pending
    tlTaken,          \* update the send loop took at this tick, not yet offered
    tlVer,            \* row -> number of writes that changed it
    tlOwed,           \* channel -> row -> ticks since each change not yet received
    tlLate,           \* channel -> a tick found the channel unread
    tlTicked,         \* a tick fired between Write's return and the merge
    tlSeen,           \* channel -> row -> newest change of the row received
    \* ---- outcome of each injection and the replies enqueued ----
    tries,            \* request -> Enter attempts that failed
    failed,           \* request -> its operation returned an error
    replyLog,         \* agent -> the replies enqueued for its requests, in order
    \* ---- the registry's watch loop ----
    wQueue,           \* notifications published and not yet taken by the watch loop
    wSent,            \* notifications published so far
    wScan,            \* "idle" or "running"
    wDirty,           \* the dirty flag
    wOwed,            \* triggers received since the last scan started
    wStarts,          \* scans started by the watch loop
    wReruns,          \* of these, re-runs after a dirty scan
    \* ---- control channel (tmux ControlMode) ----
    cmMu,
    cmPc,
    cmCmd,
    cmRet,
    cmWire,
    cmResp,
    cmNext,
    \* ---- adapter server (wsadapter.Server) ----
    adClients,
    agentSub,
    adFilter,
    adSend,
    adEvent,
    \* ---- pipe-pane manager: tear-down counts and the state before the last Subscribe ----
    closes,
    stops,
    removes,
    atSubscribe,
    \* ---- conversation subscriptions of one client (wsconv.Client) ----
    cvOpen,
    cvSubs,
    cvFollows,
    cvPending,
    cvNextSub,
    tailRefs,
    cvDown,
    \* ---- pending subscribe-conversation requests and their timers (pendingConvSub) ----
    cvMsgOf,
    cvReqConv,
    cvTimer,
    cvAns,
    cvRel,
    cvOut,
    \* ---- the send loop between taking the pending update and sending it ----
    flTaken,
    flBad,
    \* ---- a client's read pump, write pump and removal (Client.run, HandleWebSocket) ----
    pmRead,
    pmWrite,
    pmConn,
    pmCtx,
    pmIn,
    pmCleanups,
    pmSend,
    \* ---- requests with side effects that the read pump let through ----
    uploads,
    prompts,
    \* ---- the watcher's active conversation of an agent and the conversation buffers that exist ----
    cvCurrent,
    cvBuf,
    \* ---- client set of one server under s.mu: broadcasts and removals ----
    rmKind,
    rmClients,
    rmMu,
    rmTodo,
    rmEvent,
    rmPc,
    rmGone,
    rmSub,
    rmMaps,
    rmSend,
    rmAll,
    rmJoined,
    op            \* the operation that produced the current state

pipeVars == <<streams, nextStream, nextChan, strSession, subscribers, cancelled,
              tailer, pending, chanBuf, chanClosed, pipeActive, files>>

promptVars == <<nextReq, reqAgent, reqKind, pc, stepIdx, lockOf, holder, ctrlLog>>

regVars == <<workDirFilter, skip, agents, events, scanning, newAgents,
             plan, emitIdx, scans, gen, droppedAdd, seenAdd, seenRemGen, updFirst,
             addAfterRem>>

srvVars == <<clients, handshakeDone, subscribedAgents, sessionFilter, send,
             unmatched, lostRem, everFiltered, tracked, replyDue>>

scrVars == <<term, prevRows, ret, writes>>

callVars == <<scrMu, scrPc, scrArg, scrY, scrUpd>>

tailVars == <<tlSubs, tlChan, tlView, tlUpd, tlPending, tlTaken, tlVer, tlOwed, tlLate,
              tlTicked, tlSeen>>

replyVars == <<tries, failed, replyLog>>

watchVars == <<wQueue, wSent, wScan, wDirty, wOwed, wStarts, wReruns>>

cmVars == <<cmMu, cmPc, cmCmd, cmRet, cmWire, cmResp, cmNext>>

adVars == <<adClients, agentSub, adFilter, adSend, adEvent>>

downVars == <<closes, stops, removes, atSubscribe>>

convVars == <<cvOpen, cvSubs, cvFollows, cvPending, cvNextSub, tailRefs, cvDown>>

pendVars == <<cvMsgOf, cvReqConv, cvTimer, cvAns, cvRel, cvOut>>

flushVars == <<flTaken, flBad>>

pumpVars == <<pmRead, pmWrite, pmConn, pmCtx, pmIn, pmCleanups, pmSend>>

gateVars == <<uploads, prompts>>

swVars == <<cvCurrent, cvBuf>>

rmVars == <<rmKind, rmClients, rmMu, rmTodo, rmEvent, rmPc, rmGone, rmSub, rmMaps, rmSend, rmAll, rmJoined>>

vars == <<pipeVars, promptVars, regVars, srvVars, scrVars, callVars, tailVars, replyVars, watchVars, cmVars, adVars, downVars, convVars, pendVars, flushVars, pumpVars, gateVars, swVars, rmVars, op>>

(***************************************************************************)
(* Bounds of the model.                                                    *)
(***************************************************************************)
\* channel objects Subscribe may allocate in one run
MaxChans == 2
\* stream objects Subscribe may allocate in one run
MaxStreams == 2
\* capacity of a subscriber channel (make(chan, 256) in the program, scaled)
ChanCap == 1
\* send-prompt / file-upload requests that arrive in one run
MaxReqs == 2
\* control-channel calls that fail in one run
MaxFails == 3
\* capacity of the registry's events channel (100 in the program, scaled)
EventCap == 1
\* scans started in one run
MaxScans == 2
\* capacity of a client's outbound queue (256 in the program, scaled)
SendCap == 2
\* the counters of written agent-added and of dropped agent-removed saturate
MaxUnmatched == 3
MaxLost == 2
\* size of the screen (80 x 24 in the program's tests, scaled)
ScreenWidth == 2
ScreenHeight == 2
\* calls of Write / Snapshot in one run
MaxWrites == 4
\* capacity of a subscriber channel of the stream whose updates carry content
TailCap == 2
\* capacity of the notifications channel
NotifCap == 2
\* notifications the control channel publishes in one run
MaxNotifs == 4
\* ticks counted for a change a subscriber has not received yet
MaxAge == 3
\* the counts of closes, pipe-pane stops and file deletions saturate
MaxCount == 2

Sessions == {"s1", "s2"}
ScreenRows == {0}
ChanIds == 1..MaxChans
StreamIds == 1..MaxStreams

\* A *vt.ScreenUpdate as the manager sees it: its non-empty set of rows.
Updates == (SUBSET ScreenRows) \ {{}}

\* op: the operation's name, its session, its channel (or stream) and its
\* outcome; drop: the subscriber channels a flush found full.
NoOp == [name |-> "init", s |-> "", c |-> 0, ok |-> TRUE, drop |-> {}]
Op(n, s, c, ok) == [name |-> n, s |-> s, c |-> c, ok |-> ok, drop |-> {}]

(***************************************************************************)
(* PipePaneManager                                                         *)
(***************************************************************************)
\* The sessions with a stream in pm.streams, and each session's subscribers.
ActiveSessions == {s \in Sessions : streams[s] # 0}
SubscribersOf(s) == IF streams[s] = 0 THEN {} ELSE subscribers[streams[s]]
NoBefore == [active |-> {}, subs |-> [s \in Sessions |-> {}], s |-> "", ch |-> 0, age |-> 2]

\* One more execution counted, up to MaxCount.
Counted(n, k) == IF n + k < MaxCount THEN n + k ELSE MaxCount

InitPipe ==
    /\ streams = [s \in Sessions |-> 0]
    /\ nextStream = 1
    /\ nextChan = 1
    /\ strSession = [i \in StreamIds |-> ""]
    /\ subscribers = [i \in StreamIds |-> {}]
    /\ cancelled = {}
    /\ tailer = [i \in StreamIds |-> "none"]
    /\ pending = [i \in StreamIds |-> {}]
    /\ chanBuf = [c \in ChanIds |-> <<>>]
    /\ chanClosed = {}
    /\ pipeActive = {}
    /\ files = {}
    /\ closes = [c \in ChanIds |-> 0]
    /\ stops = [i \in StreamIds |-> 0]
    /\ removes = [i \in StreamIds |-> 0]
    /\ atSubscribe = NoBefore

\* Subscribe on a session that already has a stream: the new channel joins the
\* stream's subscriber set.
SubscribeExisting(s) ==
    /\ streams[s] # 0
    /\ nextChan <= MaxChans
    /\ subscribers' = [subscribers EXCEPT ![streams[s]] = @ \cup {nextChan}]
    /\ nextChan' = nextChan + 1
    /\ op' = Op("Subscribe", s, nextChan, TRUE)
    /\ UNCHANGED <<streams, nextStream, strSession, cancelled, tailer, pending,
                   chanBuf, chanClosed, pipeActive, files>>

\* First subscriber: create the file, activate pipe-pane, register the stream
\* and start the tailer.
SubscribeFirst(s) ==
    /\ streams[s] = 0
    /\ nextChan <= MaxChans
    /\ nextStream <= MaxStreams
    /\ streams' = [streams EXCEPT ![s] = nextStream]
    /\ strSession' = [strSession EXCEPT ![nextStream] = s]
    /\ subscribers' = [subscribers EXCEPT ![nextStream] = {nextChan}]
    /\ tailer' = [tailer EXCEPT ![nextStream] = "starting"]
    /\ nextStream' = nextStream + 1
    /\ nextChan' = nextChan + 1
    /\ files' = files \cup {s}
    /\ pipeActive' = pipeActive \cup {s}
    /\ op' = Op("Subscribe", s, nextChan, TRUE)
    /\ UNCHANGED <<cancelled, pending, chanBuf, chanClosed>>

\* os.OpenFile fails: nothing is changed.
SubscribeCreateFails(s) ==
    /\ streams[s] = 0
    /\ op' = Op("Subscribe", s, 0, FALSE)
    /\ UNCHANGED <<streams, nextStream, nextChan, strSession, subscribers, cancelled,
                   tailer, pending, chanBuf, chanClosed, pipeActive, files>>

\* Subscribe: os.Remove(filePath) after PipePaneStart failed, on the files
\* as os.OpenFile left them.
RemoveCreatedSkipped(F, s) == F
RemoveCreated(F, s) == F \ {s}

\* PipePaneStart fails: the file just created is removed again.
SubscribePipeFails(s) ==
    /\ streams[s] = 0
    /\ files' = RemoveCreated(files \cup {s}, s)
    /\ op' = Op("Subscribe", s, 0, FALSE)
    /\ UNCHANGED <<streams, nextStream, nextChan, strSession, subscribers, cancelled,
                   tailer, pending, chanBuf, chanClosed, pipeActive>>

Subscribe(s) ==
    \/ SubscribeExisting(s)
    \/ SubscribeFirst(s)
    \/ SubscribeCreateFails(s)
    \/ SubscribePipeFails(s)

\* Unsubscribe, lines 104-114: no subscriber is left once the given channel is
\* taken out of the set.
LastGoneStale(i, c) == Cardinality(subscribers[i]) = 0
LastGone(i, c) == Cardinality(subscribers[i] \ {c}) = 0

\* stopStream: pm.ctrl.PipePaneStop(stream.session) for every stream of I.
PipePaneStopSkipped(I) == pipeActive
PipePaneStop(I) == pipeActive \ {strSession[i] : i \in I}

\* stopStream: os.Remove(stream.filePath) for every stream of I.
RemoveFilesSkipped(I) == files
RemoveFiles(I) == files \ {strSession[i] : i \in I}

\* stopStream: stream.subscribers = nil for every stream of I.
KeepSubscribers(I, subs) == subs
DropSubscribers(I, subs) == [i \in StreamIds |-> IF i \in I THEN {} ELSE subs[i]]

\* stopStream on every stream of I, given the subscriber sets and the closed
\* channels as the caller left them (first: the channels the caller closed
\* itself): cancel, stop the pipe, close every remaining subscriber channel,
\* drop the subscriber map, delete the file.
stopStream(I, subs, closed, first) ==
    /\ cancelled' = cancelled \cup I
    /\ pipeActive' = PipePaneStop(I)
    /\ chanClosed' = closed \cup UNION {subs[i] : i \in I}
    /\ subscribers' = DropSubscribers(I, subs)
    /\ files' = RemoveFiles(I)
    /\ closes' = [c \in ChanIds |->
                    Counted(closes[c], Cardinality({i \in {0} : c \in first})
                                       + Cardinality({i \in I : c \in subs[i]}))]
    /\ stops' = [i \in StreamIds |-> IF i \in I THEN Counted(stops[i], 1) ELSE stops[i]]
    /\ removes' = [i \in StreamIds |-> IF i \in I THEN Counted(removes[i], 1) ELSE removes[i]]

\* Unsubscribe: delete(stream.subscribers, sub) when the channel is found.
RemovedNot(i, c) == subscribers
Removed(i, c) == [subscribers EXCEPT ![i] = @ \ {c}]

\* Unsubscribe: delete(pm.streams, session).
DeleteStreamForgotten(s) == streams
DeleteStream(s) == [streams EXCEPT ![s] = 0]

\* Unsubscribe(session, ch) with any channel Subscribe has handed out.
Unsubscribe(s, c) ==
    /\ c < nextChan
    /\ op' = Op("Unsubscribe", s, c, TRUE)
    /\ IF streams[s] = 0
       THEN UNCHANGED <<pipeVars, closes, stops, removes>>
       ELSE LET i == streams[s]
                found == c \in subscribers[i]
                subs1 == Removed(i, c)
                closed1 == IF found THEN chanClosed \cup {c} ELSE chanClosed
                first == IF found THEN {c} ELSE {}
            IN  IF LastGone(i, c)
                THEN /\ stopStream({i}, subs1, closed1, first)
                     /\ streams' = DeleteStream(s)
                     /\ UNCHANGED <<nextStream, nextChan, strSession, tailer,
                                    pending, chanBuf>>
                ELSE /\ subscribers' = subs1
                     /\ chanClosed' = closed1
                     /\ closes' = [x \in ChanIds |->
                                     IF x \in first THEN Counted(closes[x], 1) ELSE closes[x]]
                     /\ UNCHANGED <<streams, nextStream, nextChan, strSession,
                                    cancelled, tailer, pending, chanBuf,
                                    pipeActive, files, stops, removes>>

\* StopAll: stopStream and delete for every stream of the map.
StopAll ==
    /\ op' = Op("StopAll", "", 0, TRUE)
    /\ stopStream({streams[s] : s \in Sessions} \ {0}, subscribers, chanClosed, {})
    /\ streams' = [s \in Sessions |-> 0]
    /\ UNCHANGED <<nextStream, nextChan, strSession, tailer, pending, chanBuf>>

(***************************************************************************)
(* tailFile: the reader goroutine and the send loop of one stream          *)
(***************************************************************************)
\* os.Open of the tail file; the goroutine returns when it fails.
TailOpen(i) ==
    /\ tailer[i] = "starting"
    /\ tailer' = [tailer EXCEPT ![i] =
                    IF strSession[i] \in files THEN "running" ELSE "exited"]
    /\ op' = Op("TailOpen", strSession[i], i, strSession[i] \in files)
    /\ UNCHANGED <<streams, nextStream, nextChan, strSession, subscribers,
                   cancelled, pending, chanBuf, chanClosed, pipeActive, files>>

\* os.Open returns an error although Subscribe created the file (the file was
\* removed by someone else, no descriptor is left, ...): tailFile logs and
\* returns.
TailOpenFails(i) ==
    /\ tailer[i] = "starting"
    /\ tailer' = [tailer EXCEPT ![i] = "exited"]
    /\ op' = Op("TailOpen", strSession[i], i, FALSE)
    /\ UNCHANGED <<streams, nextStream, nextChan, strSession, subscribers,
                   cancelled, pending, chanBuf, chanClosed, pipeActive, files>>

\* Reader: n > 0 bytes fed through the screen gave an update with rows `dirty`;
\* it becomes the pending update or is merged into it (maps.Copy).
TailRead(i, dirty) ==
    /\ tailer[i] = "running"
    /\ pending' = [pending EXCEPT ![i] = @ \cup dirty]
    /\ op' = Op("TailRead", strSession[i], i, TRUE)
    /\ UNCHANGED <<streams, nextStream, nextChan, strSession, subscribers,
                   cancelled, tailer, chanBuf, chanClosed, pipeActive, files>>

\* select { case ch <- update: default: } on a channel of capacity ChanCap.
SendAlways(buf, u) == Append(buf, u)
SendNonBlocking(buf, u) == IF Len(buf) < ChanCap THEN Append(buf, u) ELSE buf

\* Send loop, case <-ticker.C: take the pending update and offer it to every
\* subscriber channel.
Flush(i) ==
    /\ tailer[i] = "running"
    /\ pending' = [pending EXCEPT ![i] = {}]
    /\ chanBuf' = [c \in ChanIds |->
                     IF pending[i] # {} /\ c \in subscribers[i]
                     THEN SendNonBlocking(chanBuf[c], pending[i])
                     ELSE chanBuf[c]]
    /\ op' = [name |-> "Flush", s |-> strSession[i], c |-> i, ok |-> pending[i] # {},
              drop |-> IF pending[i] = {} THEN {}
                       ELSE {c \in subscribers[i] : Len(chanBuf[c]) >= ChanCap}]
    /\ UNCHANGED <<streams, nextStream, nextChan, strSession, subscribers,
                   cancelled, tailer, chanClosed, pipeActive, files>>

\* case <-ctx.Done(): both goroutines return.
TailExit(i) ==
    /\ tailer[i] = "running"
    /\ i \in cancelled
    /\ tailer' = [tailer EXCEPT ![i] = "exited"]
    /\ op' = Op("TailExit", strSession[i], i, TRUE)
    /\ UNCHANGED <<streams, nextStream, nextChan, strSession, subscribers,
                   cancelled, pending, chanBuf, chanClosed, pipeActive, files>>

\* The subscriber's goroutine receives one update from its channel.
Recv(c) ==
    /\ chanBuf[c] # <<>>
    /\ chanBuf' = [chanBuf EXCEPT ![c] = Tail(@)]
    /\ op' = Op("Recv", "", c, TRUE)
    /\ UNCHANGED <<streams, nextStream, nextChan, strSession, subscribers,
                   cancelled, tailer, pending, chanClosed, pipeActive, files>>

(***************************************************************************)
(* The send loop of tailFile in its two steps: the pending update is taken *)
(* under pendingMu, then offered to the subscribers under stream.mu.       *)
(***************************************************************************)
InitFlush ==
    /\ flTaken = [i \in StreamIds |-> {}]
    /\ flBad = {}

\* case <-ticker.C: update := pending; pending = nil.
FlushTake(i) ==
    /\ tailer[i] = "running"
    /\ flTaken[i] = {}
    /\ pending[i] # {}
    /\ flTaken' = [flTaken EXCEPT ![i] = pending[i]]
    /\ pending' = [pending EXCEPT ![i] = {}]
    /\ op' = Op("FlushTake", strSession[i], i, TRUE)
    /\ UNCHANGED <<streams, nextStream, nextChan, strSession, subscribers,
                   cancelled, tailer, chanBuf, chanClosed, pipeActive, files, flBad>>

\* for ch := range stream.subscribers, with stream.mu: the update is offered
\* to every channel of the set as it is now; flBad collects the channels that
\* were closed when the send reached them.
FlushSend(i) ==
    /\ tailer[i] = "running"
    /\ flTaken[i] # {}
    /\ chanBuf' = [c \in ChanIds |->
                     IF c \in subscribers[i]
                     THEN SendNonBlocking(chanBuf[c], flTaken[i])
                     ELSE chanBuf[c]]
    /\ flBad' = flBad \cup (subscribers[i] \cap chanClosed)
    /\ flTaken' = [flTaken EXCEPT ![i] = {}]
    /\ op' = Op("FlushSend", strSession[i], i, TRUE)
    /\ UNCHANGED <<streams, nextStream, nextChan, strSession, subscribers,
                   cancelled, tailer, pending, chanClosed, pipeActive, files>>

(***************************************************************************)
(* Prompter: per-agent serialisation of send-prompt and file-upload        *)
(***************************************************************************)
Agents == {"X", "Y"}
ReqIds == 1..MaxReqs
\* The connection each request arrives on: requests 1 and 3 share a client.
ClientOf(r) == IF r % 2 = 1 THEN "c1" ELSE "c2"
FreshLock(r) == <<"fresh", r>>
LockIds == {<<"agent", a>> : a \in Agents} \cup {FreshLock(r) : r \in ReqIds}
NoLock == <<"none", 0>>

\* The control-channel calls of one operation, in order (section 4.5): the
\* text, Escape, Enter, and the two resizes of the wake dance.
Calls(kind) == <<IF kind = "prompt" THEN "literal" ELSE "paste",
                 "Escape", "Enter", "shrink", "restore">>

\* Enter is attempted at most this many times.
MaxEnterTries == 3

\* The wake dance follows a successful Enter when no client is attached.
WakeAlways(att) == TRUE
WakeNeeded(att) == ~att

InitPrompt ==
    /\ nextReq = 1
    /\ reqAgent = [r \in ReqIds |-> ""]
    /\ reqKind = [r \in ReqIds |-> ""]
    /\ pc = [r \in ReqIds |-> "idle"]
    /\ stepIdx = [r \in ReqIds |-> 0]
    /\ lockOf = [r \in ReqIds |-> NoLock]
    /\ holder = [l \in LockIds |-> 0]
    /\ ctrlLog = [a \in Agents |-> << >>]
    /\ tries = [r \in ReqIds |-> 0]
    /\ failed = [r \in ReqIds |-> FALSE]
    /\ replyLog = [a \in Agents |-> << >>]

\* Prompter.GetLock(name), as called by request r: the mutex stored for the
\* name, created on first use.
GetLockPerCall(a, r) == FreshLock(r)
GetLock(a, r) == <<"agent", a>>

\* lock.Lock() returns only when no one holds the mutex.
LockNotTaken(l) == TRUE
LockFree(l) == holder[l] = 0

\* handleSendPrompt: the read pump takes the agent's mutex from GetLock and
\* starts the goroutine that will lock it.
HandleSendPrompt(a) ==
    /\ nextReq <= MaxReqs
    /\ reqAgent' = [reqAgent EXCEPT ![nextReq] = a]
    /\ reqKind' = [reqKind EXCEPT ![nextReq] = "prompt"]
    /\ lockOf' = [lockOf EXCEPT ![nextReq] = GetLock(a, nextReq)]
    /\ pc' = [pc EXCEPT ![nextReq] = "waiting"]
    /\ nextReq' = nextReq + 1
    /\ op' = [name |-> "send-prompt", r |-> nextReq]
    /\ UNCHANGED <<stepIdx, holder, ctrlLog, replyVars>>

\* handleBinaryMessage, BinaryFileUpload: the read pump starts the goroutine;
\* the goroutine calls GetLock itself.
HandleFileUpload(a) ==
    /\ nextReq <= MaxReqs
    /\ reqAgent' = [reqAgent EXCEPT ![nextReq] = a]
    /\ reqKind' = [reqKind EXCEPT ![nextReq] = "upload"]
    /\ pc' = [pc EXCEPT ![nextReq] = "spawned"]
    /\ nextReq' = nextReq + 1
    /\ op' = [name |-> "file-upload", r |-> nextReq]
    /\ UNCHANGED <<stepIdx, lockOf, holder, ctrlLog, replyVars>>

\* The goroutine's lock.Lock() (after GetLock, for an upload).
Acquire(r) ==
    /\ pc[r] \in {"waiting", "spawned"}
    /\ LET l == IF pc[r] = "spawned" THEN GetLock(reqAgent[r], r) ELSE lockOf[r]
       IN  /\ LockFree(l)
           /\ holder' = [holder EXCEPT ![l] = r]
           /\ lockOf' = [lockOf EXCEPT ![r] = l]
    /\ pc' = [pc EXCEPT ![r] = "running"]
    /\ op' = [name |-> "Acquire", r |-> r]
    /\ UNCHANGED <<nextReq, reqAgent, reqKind, stepIdx, ctrlLog, replyVars>>

\* The control-channel calls that failed so far.
FailedCalls ==
    Cardinality(UNION {{<<a, i>> : i \in {j \in DOMAIN ctrlLog[a] : ~ctrlLog[a][j].ok}} :
                       a \in Agents})

\* SendPrompt / HandleFileUpload issue their next control-channel call: the
\* text and Escape once each (an error ends the operation), Enter until it
\* succeeds or MaxEnterTries attempts failed, then the wake dance when the
\* session has no attached client.
IssueCall(r, ok, att) ==
    /\ pc[r] = "running"
    /\ ok \/ FailedCalls < MaxFails
    /\ LET call == Calls(reqKind[r])[stepIdx[r] - tries[r] + 1]
           enter == call = "Enter"
           wake == call \in {"shrink", "restore"}
           lastTry == tries[r] + 1 >= MaxEnterTries
           fails == ~ok /\ ~wake /\ (enter => lastTry)
           ends == fails \/ (enter /\ ok /\ ~WakeNeeded(att)) \/ call = "restore"
       IN  /\ ctrlLog' = [ctrlLog EXCEPT ![reqAgent[r]] =
                             Append(@, [r |-> r, call |-> call, ok |-> ok \/ wake,
                                        att |-> enter /\ ok /\ att])]
           /\ tries' = [tries EXCEPT ![r] = IF enter /\ ~ok /\ ~lastTry THEN @ + 1 ELSE @]
           /\ failed' = [failed EXCEPT ![r] = fails]
           /\ pc' = [pc EXCEPT ![r] = IF ends THEN "returning" ELSE "running"]
    /\ stepIdx' = [stepIdx EXCEPT ![r] = @ + 1]
    /\ op' = [name |-> "IssueCall", r |-> r]
    /\ UNCHANGED <<nextReq, reqAgent, reqKind, lockOf, holder, replyLog>>

\* The ok field of the reply to a send-prompt request.
ReplyAlwaysOk(r) == TRUE
ReplyOk(r) == ~failed[r]

\* The goroutine's c.sendJSON after the operation returned: a send-prompt
\* reply echoing the request id, or an error message for a failed upload;
\* nothing is enqueued when the client's send queue has no room.
Reply(r, room) ==
    /\ pc[r] = "returning"
    /\ pc' = [pc EXCEPT ![r] = "replied"]
    /\ replyLog' =
         IF ~room \/ (reqKind[r] = "upload" /\ ~failed[r]) THEN replyLog
         ELSE [replyLog EXCEPT ![reqAgent[r]] =
                 IF reqKind[r] = "prompt"
                 THEN Append(@, [id |-> r, type |-> "send-prompt", ok |-> ReplyOk(r)])
                 ELSE Append(@, [id |-> 0, type |-> "error", ok |-> FALSE])]
    /\ op' = [name |-> "Reply", r |-> r]
    /\ UNCHANGED <<nextReq, reqAgent, reqKind, stepIdx, lockOf, holder, ctrlLog,
                   tries, failed>>

\* The goroutine's deferred lock.Unlock() runs.
Release(r) ==
    /\ pc[r] = "replied"
    /\ holder' = [holder EXCEPT ![lockOf[r]] = 0]
    /\ pc' = [pc EXCEPT ![r] = "done"]
    /\ op' = [name |-> "Release", r |-> r]
    /\ UNCHANGED <<nextReq, reqAgent, reqKind, stepIdx, lockOf, ctrlLog, replyVars>>

(***************************************************************************)
(* Agent registry: scan, diff, events (section 4.3 and registry_test.go)   *)
(***************************************************************************)
Names == {"a", "b"}

\* Paths are strings, modelled as sequences of characters.
PathGt == <<"/", "g">>
PathGtWork == <<"/", "g", "/", "w">>
PathGtOther == <<"/", "g", "-", "o">>
PathSep == <<"/">>

IsPrefix(p, s) == Len(p) <= Len(s) /\ SubSeq(s, 1, Len(p)) = p

\* What the multiplexer answers about one session name: not listed, listed
\* with GetPaneInfo failing, or listed with a pane.
Pane(cmd, wd, att) == [st |-> "ok", cmd |-> cmd, wd |-> wd, att |-> att]
PaneOpts ==
    { [st |-> "absent", cmd |-> "", wd |-> <<>>, att |-> FALSE],
      [st |-> "paneErr", cmd |-> "", wd |-> <<>>, att |-> FALSE],
      Pane("zsh", PathGt, FALSE),
      Pane("claude", PathGt, FALSE),
      Pane("claude", PathGt, TRUE),
      Pane("gemini", PathGt, FALSE),
      Pane("claude", PathGtWork, FALSE),
      Pane("claude", PathGtOther, FALSE) }
Worlds == [Names -> PaneOpts]

\* Runtime detection, tier 1: the pane command names a runtime; a shell with
\* no agent below it, or an empty command, gives no runtime.
DetectRuntime(cmd) ==
    CASE cmd = "claude" -> "claude"
      [] cmd = "gemini" -> "gemini"
      [] OTHER -> ""

\* Workdir filter: empty passes all; otherwise workDir is the filter or lies
\* below it (filter + separator is a prefix).
PassesWorkDirBarePrefix(wd, f) == f = <<>> \/ IsPrefix(f, wd)
PassesWorkDir(wd, f) == f = <<>> \/ wd = f \/ IsPrefix(f \o PathSep, wd)

\* A listed session becomes an agent of the new map.
IsAgent(n, o) ==
    /\ o.st = "ok"
    /\ DetectRuntime(o.cmd) # ""
    /\ n \notin skip
    /\ PassesWorkDir(o.wd, workDirFilter)

AgentOf(o) == [runtime |-> DetectRuntime(o.cmd), workDir |-> o.wd, attached |-> o.att]

BuildAgents(w) == [n \in {m \in Names : IsAgent(m, w[m])} |-> AgentOf(w[n])]

\* An agent in both maps is updated when runtime, workDir or attached differs.
ChangedIgnoringAttached(old, new) ==
    old.runtime # new.runtime \/ old.workDir # new.workDir
Changed(old, new) ==
    old.runtime # new.runtime \/ old.workDir # new.workDir \/ old.attached # new.attached

RECURSIVE Perms(_)
\* The orders in which a Go map range may visit the names of S.
Perms(S) == IF S = {} THEN {<<>>}
            ELSE UNION {{<<x>> \o q : q \in Perms(S \ {x})} : x \in S}

Ev(type, n, a, g) == [type |-> type, name |-> n, agent |-> a, gen |-> g]

\* Tie-break of the scan: removed events first, then added, then updated.
EmitOrderAddedFirst(rs, as, us) == as \o us \o rs
EmitOrder(rs, as, us) == rs \o as \o us

\* The events of the diff of old against new, for one visiting order.
Plans(old, new) ==
    LET R == DOMAIN old \ DOMAIN new
        A == DOMAIN new \ DOMAIN old
        U == {n \in DOMAIN old \cap DOMAIN new : Changed(old[n], new[n])}
    IN  { EmitOrder([i \in DOMAIN rs |-> Ev("removed", rs[i], old[rs[i]], gen[rs[i]])],
                    [i \in DOMAIN as |-> Ev("added", as[i], new[as[i]], gen[as[i]] + 1)],
                    [i \in DOMAIN us |-> Ev("updated", us[i], new[us[i]], gen[us[i]])])
          : rs \in Perms(R), as \in Perms(A), us \in Perms(U) }

\* GetAgents / GetAgent / Count read the stored map.
GetAgents == {[name |-> n, agent |-> agents[n]] : n \in DOMAIN agents}
GetAgent(n) == n \in DOMAIN agents
Count == Cardinality(DOMAIN agents)

InitRegistryWith(f, sk) ==
    /\ workDirFilter = f
    /\ skip = sk
    /\ agents = << >>
    /\ events = << >>
    /\ scanning = FALSE
    /\ newAgents = << >>
    /\ plan = << >>
    /\ emitIdx = 0
    /\ scans = 0
    /\ gen = [n \in Names |-> 0]
    /\ droppedAdd = {}
    /\ seenAdd = {}
    /\ seenRemGen = [n \in Names |-> 0]
    /\ updFirst = {}
    /\ addAfterRem = {}

\* NewRegistry(ctrl, workDirFilter, skip)
InitRegistry ==
    \E cfg \in {<<<<>>, {}>>, <<PathGt, {}>>, <<<<>>, {"b"}>>} :
        InitRegistryWith(cfg[1], cfg[2])

\* The stored map after a scan whose ListSessions failed.
MapClearedOnListError(old) == << >>
MapAfterListError(old) == old

\* scan(): ListSessions fails; the scan returns the error and changes nothing.
\* Start() runs the first scan and returns its error.
ScanListFails ==
    /\ ~scanning
    /\ scans < MaxScans
    /\ scans' = scans + 1
    /\ agents' = MapAfterListError(agents)
    /\ op' = [name |-> "ScanListFails", ret |-> "error",
              start |-> IF scans = 0 THEN "error" ELSE "running"]
    /\ UNCHANGED <<workDirFilter, skip, events, scanning,
                   newAgents, plan, emitIdx, gen, droppedAdd, seenAdd, seenRemGen,
                   updFirst, addAfterRem>>

\* scan(): list the sessions, build the new map and diff it against the stored
\* one.
ScanBegin(w) ==
    /\ ~scanning
    /\ scans < MaxScans
    /\ scans' = scans + 1
    /\ scanning' = TRUE
    /\ newAgents' = BuildAgents(w)
    /\ \E p \in Plans(agents, BuildAgents(w)) : plan' = p
    /\ emitIdx' = 0
    /\ op' = [name |-> "ScanBegin", world |-> w]
    /\ UNCHANGED <<workDirFilter, skip, agents, events, gen, droppedAdd, seenAdd,
                   seenRemGen, updFirst, addAfterRem>>

\* A send that never blocks: the event is buffered when the channel has room
\* and discarded otherwise.
SendDropOldest(q, e) == IF Len(q) < EventCap THEN Append(q, e) ELSE Append(Tail(q), e)
SendUnbounded(q, e) == Append(q, e)
SendOrDrop(q, e) == IF Len(q) < EventCap THEN Append(q, e) ELSE q

\* The scan sends its next event: buffered when the channel has room, logged
\* and dropped when it is full.
EmitOne ==
    /\ scanning
    /\ emitIdx < Len(plan)
    /\ LET e == plan[emitIdx + 1]
           room == Len(events) < EventCap
       IN  /\ events' = SendOrDrop(events, e)
           /\ gen' = IF e.type = "added" THEN [gen EXCEPT ![e.name] = e.gen] ELSE gen
           /\ droppedAdd' = IF e.type = "added" /\ ~room THEN droppedAdd \cup {e.name}
                            ELSE droppedAdd
           /\ op' = [name |-> "EmitOne", ev |-> e, sent |-> room]
    /\ emitIdx' = emitIdx + 1
    /\ UNCHANGED <<workDirFilter, skip, agents, scanning, newAgents,
                   plan, scans, seenAdd, seenRemGen, updFirst, addAfterRem>>

\* The scan replaces the stored map and returns.
ScanEnd ==
    /\ scanning
    /\ emitIdx = Len(plan)
    /\ agents' = newAgents
    /\ scanning' = FALSE
    /\ newAgents' = << >>
    /\ plan' = << >>
    /\ emitIdx' = 0
    /\ op' = [name |-> "ScanEnd"]
    /\ UNCHANGED <<workDirFilter, skip, events, scans, gen, droppedAdd, seenAdd,
                   seenRemGen, updFirst, addAfterRem>>

\* The consumer of Events() receives the next event.
Observe ==
    /\ events # << >>
    /\ LET e == Head(events)
       IN  /\ seenAdd' = IF e.type = "added" THEN seenAdd \cup {e.name} ELSE seenAdd
           /\ seenRemGen' = IF e.type = "removed"
                            THEN [seenRemGen EXCEPT ![e.name] = e.gen] ELSE seenRemGen
           /\ updFirst' = IF e.type = "updated" /\ e.name \notin seenAdd
                          THEN updFirst \cup {e.name} ELSE updFirst
           /\ addAfterRem' = IF e.type = "added" /\ e.gen <= seenRemGen[e.name]
                             THEN addAfterRem \cup {e.name} ELSE addAfterRem
           /\ op' = [name |-> "Observe", ev |-> e]
    /\ events' = Tail(events)
    /\ UNCHANGED <<workDirFilter, skip, agents, scanning, newAgents,
                   plan, emitIdx, scans, gen, droppedAdd>>

(***************************************************************************)
(* Conversation server: lifecycle broadcast to clients (wsconv/server.go)  *)
(***************************************************************************)
Clients == {"c1", "c2"}
\* The client whose event history is followed.
LifecycleClients == {"c1"}

\* A session filter regex is modelled by its source text: "" is no filter, "("
\* does not compile, any other text matches the names that contain it.
FilterTexts == {"", "a", "("}
\* The include / exclude pairs a subscribe-agents request carries.
FilterInputs == {<<"", "">>, <<"", "a">>, <<"(", "">>}
NilRegexp == ""
Compiles(re) == re # "("
MatchString(re, name) == re = name
NoFilter == [include |-> NilRegexp, exclude |-> NilRegexp]

CompileSessionFilters(inc, exc) ==
    IF Compiles(inc) /\ Compiles(exc)
    THEN [ok |-> TRUE, include |-> inc, exclude |-> exc]
    ELSE [ok |-> FALSE, include |-> NilRegexp, exclude |-> NilRegexp]

PassesIncludeOnly(name, include, exclude) ==
    ~(include # NilRegexp /\ ~MatchString(include, name))

PassesFilter(name, include, exclude) ==
    /\ ~(include # NilRegexp /\ ~MatchString(include, name))
    /\ ~(exclude # NilRegexp /\ MatchString(exclude, name))

\* A queued message: its type and, for a lifecycle event, the agent's name.
Msg(type, n) == [type |-> type, name |-> n]

\* sendJSON: enqueue unless the outbound queue is full, then drop.
sendJSONDropOldest(q, m) == IF Len(q) < SendCap THEN Append(q, m) ELSE Append(Tail(q), m)
sendJSONUnbounded(q, m) == Append(q, m)
sendJSON(q, m) == IF Len(q) < SendCap THEN Append(q, m) ELSE q

Bump(f, c, n, max) == [f EXCEPT ![c][n] = IF @ < max THEN @ + 1 ELSE @]

InitServerWith(t) ==
    /\ tracked = t
    /\ replyDue = [c \in Clients |-> "none"]
    /\ clients = {}
    /\ handshakeDone = [c \in Clients |-> FALSE]
    /\ subscribedAgents = [c \in Clients |-> FALSE]
    /\ sessionFilter = [c \in Clients |-> NoFilter]
    /\ send = [c \in Clients |-> << >>]
    /\ unmatched = [c \in Clients |-> [n \in Names |-> 0]]
    /\ lostRem = [c \in Clients |-> [n \in Names |-> 0]]
    /\ everFiltered = {}

InitServer == InitServerWith(LifecycleClients)

\* ServeHTTP: a new Client is created and registered.
ClientConnect(c) ==
    /\ c \notin clients
    /\ clients' = clients \cup {c}
    /\ UNCHANGED <<op, tracked, replyDue>>
    /\ UNCHANGED <<handshakeDone, subscribedAgents, sessionFilter, send, unmatched,
                   lostRem, everFiltered>>
    /\ UNCHANGED regVars

\* removeClient: the read pump returned; the client leaves s.clients and the
\* Client object is dropped.
removeClient(c) ==
    /\ c \in clients
    /\ replyDue[c] = "none"
    /\ clients' = clients \ {c}
    /\ handshakeDone' = [handshakeDone EXCEPT ![c] = FALSE]
    /\ subscribedAgents' = [subscribedAgents EXCEPT ![c] = FALSE]
    /\ sessionFilter' = [sessionFilter EXCEPT ![c] = NoFilter]
    /\ send' = [send EXCEPT ![c] = << >>]
    /\ unmatched' = [unmatched EXCEPT ![c] = [n \in Names |-> 0]]
    /\ UNCHANGED lostRem
    /\ everFiltered' = everFiltered \ {c}
    /\ UNCHANGED <<op, tracked, replyDue>>
    /\ UNCHANGED regVars

\* handleTextMessage: before the handshake only hello is dispatched.
NeedsHandshakeNever(done) == FALSE
NeedsHandshake(done) == ~done

\* handleTextMessage, type hello.
handleHello(c, protoOk) ==
    /\ c \in clients
    /\ replyDue[c] = "none"
    /\ IF handshakeDone[c]
       THEN /\ send' = [send EXCEPT ![c] = sendJSON(@, Msg("error", ""))]
            /\ UNCHANGED handshakeDone
       ELSE /\ handshakeDone' = [handshakeDone EXCEPT ![c] = protoOk]
            /\ send' = [send EXCEPT ![c] =
                          sendJSON(@, Msg("hello", IF protoOk THEN "ok" ELSE "unsupported"))]
    /\ UNCHANGED <<op, tracked, replyDue>>
    /\ UNCHANGED <<clients, subscribedAgents, sessionFilter, unmatched, lostRem,
                   everFiltered>>
    /\ UNCHANGED regVars

\* handleTextMessage, type subscribe-agents, run with no broadcast in between.
handleSubscribeAgents(c, inc, exc) ==
    /\ c \in clients
    /\ replyDue[c] = "none"
    /\ LET f == CompileSessionFilters(inc, exc)
       IN  IF NeedsHandshake(handshakeDone[c]) \/ ~f.ok
           THEN /\ send' = [send EXCEPT ![c] = sendJSON(@, Msg("error", ""))]
                /\ UNCHANGED <<subscribedAgents, sessionFilter, everFiltered>>
           ELSE /\ subscribedAgents' = [subscribedAgents EXCEPT ![c] = TRUE]
                /\ sessionFilter' = [sessionFilter EXCEPT ![c] =
                                         [include |-> f.include, exclude |-> f.exclude]]
                /\ send' = [send EXCEPT ![c] = sendJSON(@, Msg("subscribe-agents", ""))]
                /\ everFiltered' = IF c \in tracked /\ (f.include # NilRegexp \/ f.exclude # NilRegexp)
                                   THEN everFiltered \cup {c} ELSE everFiltered
    /\ UNCHANGED <<op, tracked, replyDue>>
    /\ UNCHANGED <<clients, handshakeDone, unmatched, lostRem>>
    /\ UNCHANGED regVars

\* handleSubscribeAgents up to c.mu.Unlock(): the filters are compiled and,
\* under c.mu, the flag and the filters are stored.  A request that is
\* refused is answered at once.
subscribeAgentsStore(c, inc, exc) ==
    /\ c \in clients
    /\ replyDue[c] = "none"
    /\ LET f == CompileSessionFilters(inc, exc)
       IN  IF NeedsHandshake(handshakeDone[c]) \/ ~f.ok
           THEN /\ send' = [send EXCEPT ![c] = sendJSON(@, Msg("error", ""))]
                /\ UNCHANGED <<subscribedAgents, sessionFilter, everFiltered, replyDue>>
           ELSE /\ subscribedAgents' = [subscribedAgents EXCEPT ![c] = TRUE]
                /\ sessionFilter' = [sessionFilter EXCEPT ![c] =
                                         [include |-> f.include, exclude |-> f.exclude]]
                /\ replyDue' = [replyDue EXCEPT ![c] =
                                    IF subscribedAgents[c] THEN "again" ELSE "first"]
                /\ everFiltered' = IF c \in tracked /\ (f.include # NilRegexp \/ f.exclude # NilRegexp)
                                   THEN everFiltered \cup {c} ELSE everFiltered
                /\ UNCHANGED send
    /\ UNCHANGED <<op, tracked>>
    /\ UNCHANGED <<clients, handshakeDone, unmatched, lostRem>>
    /\ UNCHANGED regVars

\* handleSubscribeAgents after c.mu.Unlock(): the agent list is built and the
\* response is enqueued.
subscribeAgentsReply(c) ==
    /\ c \in clients
    /\ replyDue[c] # "none"
    /\ send' = [send EXCEPT ![c] = sendJSON(@, Msg("subscribe-agents", ""))]
    /\ replyDue' = [replyDue EXCEPT ![c] = "none"]
    /\ UNCHANGED <<op, tracked>>
    /\ UNCHANGED <<clients, handshakeDone, subscribedAgents, sessionFilter, unmatched,
                   lostRem, everFiltered>>
    /\ UNCHANGED regVars

RECURSIVE SendAll(_, _)
\* The scan sends the events of its diff one after the other.
SendAll(q, p) == IF p = << >> THEN q ELSE SendAll(SendOrDrop(q, Head(p)), Tail(p))

\* The listings the multiplexer gives while clients are served: session a
\* comes, changes its attach state and goes.
LifecycleWorlds ==
    { [n \in Names |-> IF n = "a" THEN o
                       ELSE [st |-> "absent", cmd |-> "", wd |-> <<>>, att |-> FALSE]] :
      o \in { [st |-> "absent", cmd |-> "", wd |-> <<>>, att |-> FALSE],
              Pane("claude", PathGt, FALSE),
              Pane("claude", PathGt, TRUE) } }

\* One scan of the registry run to its end: the diff is sent on the events
\* channel and the stored map replaced.
Rescan(w) ==
    /\ ~scanning
    /\ \E p \in Plans(agents, BuildAgents(w)) :
          /\ events' = SendAll(events, p)
          /\ lostRem' =
                LET kept == Len(events') - Len(events)
                    lost == {p[i].name : i \in {j \in DOMAIN p : j > kept /\ p[j].type = "removed"}}
                IN  [c \in Clients |-> [n \in Names |->
                        IF c \in tracked /\ n \in lost /\ lostRem[c][n] < MaxLost
                        THEN lostRem[c][n] + 1 ELSE lostRem[c][n]]]
    /\ agents' = BuildAgents(w)
    /\ UNCHANGED <<op, tracked, replyDue>>
    /\ UNCHANGED <<workDirFilter, skip, scanning, newAgents, plan, emitIdx, scans, gen,
                   droppedAdd, seenAdd, seenRemGen, updFirst, addAfterRem>>
    /\ UNCHANGED <<clients, handshakeDone, subscribedAgents, sessionFilter, send,
                   unmatched, everFiltered>>

\* The watcher forwards a registry event as a WatcherEvent.
WireType(type) ==
    CASE type = "added" -> "agent-added"
      [] type = "removed" -> "agent-removed"
      [] OTHER -> "agent-updated"
WatcherEvent(e) == [type |-> WireType(e.type), name |-> e.name]

\* What broadcastAgentLifecycle leaves in the queue q of one subscribed client.
AfterCount(q, e) ==
    IF e.type # "agent-updated" THEN sendJSON(q, Msg("agents-count", "")) ELSE q
AfterLifecycle(q, e, f) ==
    IF PassesFilter(e.name, f.include, f.exclude)
    THEN sendJSON(AfterCount(q, e), Msg(e.type, e.name))
    ELSE AfterCount(q, e)

\* Server.Broadcast of the next registry event, forwarded by the watcher:
\* broadcastAgentLifecycle under s.mu.
Broadcast ==
    /\ events # << >>
    /\ LET e == WatcherEvent(Head(events))
       IN  /\ send' = [c \in Clients |->
                         IF c \in clients /\ subscribedAgents[c]
                         THEN AfterLifecycle(send[c], e, sessionFilter[c])
                         ELSE send[c]]
           /\ lostRem' = [c \in Clients |-> [n \in Names |->
                             IF /\ c \in tracked /\ c \in clients /\ subscribedAgents[c]
                                /\ e.type = "agent-removed" /\ e.name = n
                                /\ PassesFilter(n, sessionFilter[c].include, sessionFilter[c].exclude)
                                /\ Msg("agent-removed", n) \notin
                                     {send'[c][i] : i \in Len(send[c]) + 1 .. Len(send'[c])}
                                /\ lostRem[c][n] < MaxLost
                             THEN lostRem[c][n] + 1 ELSE lostRem[c][n]]]
           /\ UNCHANGED <<op, tracked, replyDue>>
    /\ events' = Tail(events)
    /\ UNCHANGED <<workDirFilter, skip, agents, scanning, newAgents, plan, emitIdx,
                   scans, gen, droppedAdd, seenAdd, seenRemGen, updFirst, addAfterRem>>
    /\ UNCHANGED <<clients, handshakeDone, subscribedAgents, sessionFilter, unmatched,
                   everFiltered>>

\* writePump: the next queued message is written to the client's connection.
writePump(c) ==
    /\ c \in clients
    /\ send[c] # << >>
    /\ LET m == Head(send[c])
       IN  /\ unmatched' =
                 IF c \notin tracked THEN unmatched
                 ELSE IF m.type = "agent-added" THEN Bump(unmatched, c, m.name, MaxUnmatched)
                 ELSE IF m.type = "agent-removed" THEN [unmatched EXCEPT ![c][m.name] = 0]
                 ELSE unmatched
           /\ UNCHANGED <<op, tracked, replyDue>>
    /\ send' = [send EXCEPT ![c] = Tail(@)]
    /\ UNCHANGED <<clients, handshakeDone, subscribedAgents, sessionFilter, lostRem,
                   everFiltered>>
    /\ UNCHANGED regVars

(***************************************************************************)
(* Terminal screen: Write, Snapshot, renderRow (internal/vt/screen.go)     *)
(***************************************************************************)
modeBold == 4
modeUnderline == 2
modeItalic == 16
\* vt10x.DefaultFG, vt10x.DefaultBG
DefaultFG == 16777216
DefaultBG == 16777217
Red == 1

Xs == 0 .. ScreenWidth - 1
Ys == 0 .. ScreenHeight - 1

\* A string is a sequence of characters; ESC is the escape character.
NUL == "NUL"
BlankCell == [ch |-> NUL, fg |-> DefaultFG, bg |-> DefaultBG, mode |-> 0]
BlankRow == [x \in Xs |-> BlankCell]

\* mode & bit # 0, for a bit that is a power of two
HasBit(mode, bit) == (mode \div bit) % 2 = 1

\* The byte sequences fed to the emulator, as tokens: a letter, a space, line
\* feed, cursor home (ESC[H), red foreground (ESC[31m), bold (ESC[1m), reset
\* (ESC[0m).
Tokens == {"x", " ", "LF", "HOME", "RED", "BOLD", "RESET"}

\* The chunks of bytes a Write is given: nothing, one token, two lines at
\* once, a letter that the same chunk erases again.
Datas ==
    {<< >>} \cup {<<tok>> : tok \in Tokens}
    \cup {<<"x", "LF", "x">>, <<"x", "HOME", " ">>}

\* The emulator consumes one token.
Put(tm, tok) ==
    CASE tok \in {"x", " "} ->
            [tm EXCEPT !.cells[tm.cy][tm.cx] =
                          [ch |-> tok, fg |-> tm.fg, bg |-> DefaultBG, mode |-> tm.mode],
                       !.cx = IF tm.cx + 1 < ScreenWidth THEN tm.cx + 1 ELSE tm.cx]
      [] tok = "LF" ->
            IF tm.cy + 1 < ScreenHeight
            THEN [tm EXCEPT !.cy = tm.cy + 1]
            ELSE [tm EXCEPT !.cells = [y \in Ys |-> IF y + 1 < ScreenHeight
                                                     THEN tm.cells[y + 1] ELSE BlankRow]]
      [] tok = "HOME" -> [tm EXCEPT !.cx = 0, !.cy = 0]
      [] tok = "RED" -> [tm EXCEPT !.fg = Red]
      [] tok = "BOLD" -> [tm EXCEPT !.mode = modeBold]
      [] OTHER -> [tm EXCEPT !.fg = DefaultFG, !.mode = 0]

RECURSIVE Feed(_, _)
\* s.term.Write(data)
Feed(tm, data) == IF data = << >> THEN tm ELSE Feed(Put(tm, Head(data)), Tail(data))

RECURSIVE Dec(_)
\* fmt.Sprintf("%d", n) for n >= 0
Dec(n) ==
    LET d == <<"0", "1", "2", "3", "4", "5", "6", "7", "8", "9">>[(n % 10) + 1]
    IN  IF n < 10 THEN <<d>> ELSE Append(Dec(n \div 10), d)

Semi == <<";">>

fgSGR(c) ==
    IF c = DefaultFG THEN <<"3", "9">>
    ELSE IF c < 8 THEN Dec(30 + c)
    ELSE IF c < 16 THEN Dec(90 + c - 8)
    ELSE IF c < 256 THEN <<"3", "8", ";", "5", ";">> \o Dec(c)
    ELSE <<"3", "8", ";", "2", ";">> \o Dec((c \div 65536) % 256) \o Semi
         \o Dec((c \div 256) % 256) \o Semi \o Dec(c % 256)

bgSGR(c) ==
    IF c = DefaultBG THEN <<"4", "9">>
    ELSE IF c < 8 THEN Dec(40 + c)
    ELSE IF c < 16 THEN Dec(100 + c - 8)
    ELSE IF c < 256 THEN <<"4", "8", ";", "5", ";">> \o Dec(c)
    ELSE <<"4", "8", ";", "2", ";">> \o Dec((c \div 65536) % 256) \o Semi
         \o Dec((c \div 256) % 256) \o Semi \o Dec(c % 256)

RECURSIVE Join(_)
\* strings.Join(params, ";")
Join(params) ==
    IF params = << >> THEN << >>
    ELSE IF Len(params) = 1 THEN params[1]
    ELSE params[1] \o Semi \o Join(Tail(params))

CharOf(cell) == IF cell.ch = NUL THEN " " ELSE cell.ch

NonTrivial(cell) ==
    \/ CharOf(cell) # " "
    \/ cell.fg # DefaultFG
    \/ cell.bg # DefaultBG
    \/ HasBit(cell.mode, modeBold) \/ HasBit(cell.mode, modeItalic)
    \/ HasBit(cell.mode, modeUnderline)

\* The last column with non-trivial content, -1 for an empty row.
LastCol(tm, y) ==
    LET S == {x \in Xs : NonTrivial(tm.cells[y][x])}
    IN  IF S = {} THEN -1 ELSE CHOOSE x \in S : \A z \in S : z <= x

\* One iteration of renderRow's loop over the cells up to the last column.
RenderCell(st, cell) ==
    LET bold == HasBit(cell.mode, modeBold)
        italic == HasBit(cell.mode, modeItalic)
        underline == HasBit(cell.mode, modeUnderline)
        differs == \/ cell.fg # st.curFG \/ cell.bg # st.curBG
                   \/ bold # st.curBold \/ italic # st.curItalic
                   \/ underline # st.curUnderline
        needReset == \/ (~bold /\ st.curBold) \/ (~italic /\ st.curItalic)
                     \/ (~underline /\ st.curUnderline)
                     \/ (cell.fg = DefaultFG /\ st.curFG # DefaultFG)
                     \/ (cell.bg = DefaultBG /\ st.curBG # DefaultBG)
        r == IF needReset
             THEN [st EXCEPT !.curFG = DefaultFG, !.curBG = DefaultBG, !.curBold = FALSE,
                             !.curItalic = FALSE, !.curUnderline = FALSE]
             ELSE st
        params == (IF needReset THEN << <<"0">> >> ELSE << >>)
                  \o (IF bold /\ ~r.curBold THEN << <<"1">> >> ELSE << >>)
                  \o (IF italic /\ ~r.curItalic THEN << <<"3">> >> ELSE << >>)
                  \o (IF underline /\ ~r.curUnderline THEN << <<"4">> >> ELSE << >>)
                  \o (IF cell.fg # r.curFG THEN << fgSGR(cell.fg) >> ELSE << >>)
                  \o (IF cell.bg # r.curBG THEN << bgSGR(cell.bg) >> ELSE << >>)
        sgr == IF Len(params) > 0 THEN <<"ESC", "[">> \o Join(params) \o <<"m">> ELSE << >>
    IN  IF differs
        THEN [b |-> st.b \o sgr \o <<CharOf(cell)>>,
              curFG |-> cell.fg, curBG |-> cell.bg, curBold |-> bold,
              curItalic |-> italic, curUnderline |-> underline,
              styled |-> st.styled \/ Len(params) > 0]
        ELSE [st EXCEPT !.b = st.b \o <<CharOf(cell)>>]

RECURSIVE RenderFrom(_, _, _, _, _)
RenderFrom(tm, y, x, last, st) ==
    IF x > last THEN st ELSE RenderFrom(tm, y, x + 1, last, RenderCell(st, tm.cells[y][x]))

\* renderRow(y): the row as text with SGR escape codes.
renderRow(tm, y) ==
    LET last == LastCol(tm, y)
        st0 == [b |-> << >>, curFG |-> DefaultFG, curBG |-> DefaultBG, curBold |-> FALSE,
                curItalic |-> FALSE, curUnderline |-> FALSE, styled |-> FALSE]
        st == RenderFrom(tm, y, 0, last, st0)
    IN  IF last < 0 THEN << >>
        ELSE IF st.styled /\ (\/ st.curFG # DefaultFG \/ st.curBG # DefaultBG
                              \/ st.curBold \/ st.curItalic \/ st.curUnderline)
        THEN st.b \o <<"ESC", "[", "0", "m">>
        ELSE st.b

NilUpdate == [nil |-> TRUE, rows |-> << >>, cursorRow |-> 0, cursorCol |-> 0]

\* The test of Write's loop: the row goes into the update.
RowDiffersOrStyled(row, prev) == row # prev \/ "ESC" \in {row[i] : i \in DOMAIN row}
RowDiffers(row, prev) == row # prev

\* Write's loop: s.prevRows[y] = row for every row put into the update.
BaselineStale(prev, tm, changed) == prev
Baseline(prev, tm, changed) ==
    [y \in Ys |-> IF y \in changed THEN renderRow(tm, y) ELSE prev[y]]

InitScreen ==
    /\ term = [cells |-> [y \in Ys |-> BlankRow], cx |-> 0, cy |-> 0,
               fg |-> DefaultFG, mode |-> 0]
    /\ prevRows = [y \in Ys |-> << >>]
    /\ ret = NilUpdate
    /\ writes = 0

\* Screen.Write(data)
Write(data) ==
    /\ writes < MaxWrites
    /\ writes' = writes + 1
    /\ term' = Feed(term, data)
    /\ LET tm == Feed(term, data)
           changed == {y \in Ys : RowDiffers(renderRow(tm, y), prevRows[y])}
       IN  /\ prevRows' = Baseline(prevRows, tm, changed)
           /\ ret' = IF changed = {} THEN NilUpdate
                     ELSE [nil |-> FALSE, rows |-> [y \in changed |-> renderRow(tm, y)],
                           cursorRow |-> tm.cy, cursorCol |-> tm.cx]
    /\ op' = [name |-> "Write", data |-> data]

\* Screen.Snapshot(): the full screen; the baseline is synced.
Snapshot ==
    /\ writes < MaxWrites
    /\ writes' = writes + 1
    /\ prevRows' = [y \in Ys |-> renderRow(term, y)]
    /\ ret' = [nil |-> FALSE, rows |-> [y \in Ys |-> renderRow(term, y)],
               cursorRow |-> term.cy, cursorCol |-> term.cx]
    /\ op' = [name |-> "Snapshot"]
    /\ UNCHANGED term

(***************************************************************************)
(* Concurrent callers of one Screen: Write and Snapshot step by step       *)
(***************************************************************************)
Callers == {"g1", "g2"}
NoCall == [kind |-> "none", data |-> << >>]

\* The chunks the concurrent callers write.
CallDatas == {<< >>, <<"x">>, <<"LF">>, <<"RED">>, <<"x", "HOME", " ">>}

InitCalls ==
    /\ scrMu = ""
    /\ scrPc = [k \in Callers |-> "idle"]
    /\ scrArg = [k \in Callers |-> NoCall]
    /\ scrY = [k \in Callers |-> 0]
    /\ scrUpd = [k \in Callers |-> << >>]

\* s.mu.Lock() returns only when no caller holds s.mu.
MuIgnored == TRUE
MuFree == scrMu = ""

\* A goroutine calls Write(data) or Snapshot() and reaches s.mu.Lock().
Call(k, kind, data) ==
    /\ scrPc[k] = "idle"
    /\ writes < MaxWrites
    /\ writes' = writes + 1
    /\ scrPc' = [scrPc EXCEPT ![k] = "lock"]
    /\ scrArg' = [scrArg EXCEPT ![k] = [kind |-> kind, data |-> data]]
    /\ op' = [name |-> "Call", k |-> k]
    /\ UNCHANGED <<term, prevRows, ret, scrMu, scrY, scrUpd>>

\* Write, lines 60-72 / Snapshot, lines 91-103: take s.mu, feed the emulator
\* (Write only) and start the loop over the rows.
Enter(k) ==
    /\ scrPc[k] = "lock"
    /\ MuFree
    /\ scrMu' = k
    /\ term' = IF scrArg[k].kind = "Write" THEN Feed(term, scrArg[k].data) ELSE term
    /\ scrPc' = [scrPc EXCEPT ![k] = "rows"]
    /\ scrY' = [scrY EXCEPT ![k] = 0]
    /\ scrUpd' = [scrUpd EXCEPT ![k] = << >>]
    /\ op' = [name |-> "Enter", k |-> k]
    /\ UNCHANGED <<prevRows, ret, writes, scrArg>>

\* One iteration of the loop over the rows.
RowStep(k) ==
    /\ scrPc[k] = "rows"
    /\ scrY[k] < ScreenHeight
    /\ LET y == scrY[k]
           row == renderRow(term, y)
           take == scrArg[k].kind = "Snapshot" \/ RowDiffers(row, prevRows[y])
       IN  /\ scrUpd' = IF take
                        THEN [scrUpd EXCEPT ![k] =
                                [z \in DOMAIN scrUpd[k] \cup {y} |->
                                    IF z = y THEN row ELSE scrUpd[k][z]]]
                        ELSE scrUpd
           /\ prevRows' = IF take THEN [prevRows EXCEPT ![y] = row] ELSE prevRows
    /\ scrY' = [scrY EXCEPT ![k] = @ + 1]
    /\ op' = [name |-> "RowStep", k |-> k]
    /\ UNCHANGED <<term, ret, writes, scrMu, scrPc, scrArg>>

\* The call returns its update or snapshot; the deferred s.mu.Unlock() runs.
Return(k) ==
    /\ scrPc[k] = "rows"
    /\ scrY[k] = ScreenHeight
    /\ ret' = IF scrArg[k].kind = "Write" /\ DOMAIN scrUpd[k] = {} THEN NilUpdate
              ELSE [nil |-> FALSE, rows |-> scrUpd[k],
                    cursorRow |-> term.cy, cursorCol |-> term.cx]
    /\ scrMu' = IF scrMu = k THEN "" ELSE scrMu
    /\ scrPc' = [scrPc EXCEPT ![k] = "idle"]
    /\ scrArg' = [scrArg EXCEPT ![k] = NoCall]
    /\ scrY' = [scrY EXCEPT ![k] = 0]
    /\ scrUpd' = [scrUpd EXCEPT ![k] = << >>]
    /\ op' = [name |-> "Return", k |-> k, call |-> scrArg[k]]
    /\ UNCHANGED <<term, prevRows, writes>>

(***************************************************************************)
(* tailFile with row content: reader, merge, tick, offer, and the readers  *)
(* of the subscriber channels                                              *)
(***************************************************************************)
TailChans == {"c1", "c2"}
TailDatas == {<<"x">>, <<"LF">>}
TailNil == [nil |-> TRUE, rows |-> << >>, ver |-> << >>, cursorRow |-> 0, cursorCol |-> 0]

Rendered(tm) == [y \in Ys |-> renderRow(tm, y)]

\* maps.Copy(pending.Rows, update.Rows)
CopyKeepsOld(dst, src) ==
    [y \in DOMAIN dst \cup DOMAIN src |-> IF y \in DOMAIN dst THEN dst[y] ELSE src[y]]
Copy(dst, src) ==
    [y \in DOMAIN dst \cup DOMAIN src |-> IF y \in DOMAIN src THEN src[y] ELSE dst[y]]

\* select { case ch <- update: default: } on the subscriber channel
OfferInFront(buf, u) == IF Len(buf) < TailCap THEN <<u>> \o buf ELSE buf
Offer(buf, u) == IF Len(buf) < TailCap THEN Append(buf, u) ELSE buf

\* Subscribe of the first subscriber created the stream and started tailFile.
InitTail ==
    /\ tlSubs = {"c1"}
    /\ tlChan = [c \in TailChans |-> << >>]
    /\ tlView = [c \in TailChans |-> [y \in Ys |-> << >>]]
    /\ tlUpd = TailNil
    /\ tlPending = TailNil
    /\ tlTaken = TailNil
    /\ tlVer = [y \in Ys |-> 0]
    /\ tlOwed = [c \in TailChans |-> [y \in Ys |-> << >>]]
    /\ tlLate = [c \in TailChans |-> FALSE]
    /\ tlSeen = [c \in TailChans |-> [y \in Ys |-> 0]]
    /\ tlTicked = FALSE

\* Subscribe to the existing stream: the channel joins the subscribers and
\* gets the snapshot.
TailSubscribe(c) ==
    /\ c \notin tlSubs
    /\ tlSubs' = tlSubs \cup {c}
    /\ tlView' = [tlView EXCEPT ![c] = Rendered(term)]
    /\ prevRows' = Rendered(term)
    /\ UNCHANGED <<term, ret, writes, tlChan, tlUpd, tlPending, tlTaken, tlVer,
                   tlOwed, tlLate, tlTicked, tlSeen>>

\* Reader goroutine: n > 0 bytes go through stream.screen.Write.
TailWrite(data) ==
    /\ tlUpd.nil
    /\ writes < MaxWrites
    /\ writes' = writes + 1
    /\ term' = Feed(term, data)
    /\ LET tm == Feed(term, data)
           changed == {y \in Ys : RowDiffers(renderRow(tm, y), prevRows[y])}
           ver == [y \in Ys |-> IF y \in changed THEN tlVer[y] + 1 ELSE tlVer[y]]
       IN  /\ prevRows' = Baseline(prevRows, tm, changed)
           /\ tlVer' = ver
           /\ tlUpd' = IF changed = {} THEN TailNil
                       ELSE [nil |-> FALSE, rows |-> [y \in changed |-> renderRow(tm, y)],
                             ver |-> [y \in changed |-> ver[y]],
                             cursorRow |-> tm.cy, cursorCol |-> tm.cx]
           /\ tlOwed' = [c \in TailChans |-> [y \in Ys |->
                            IF c \in tlSubs /\ y \in changed
                            THEN Append(tlOwed[c][y], 0) ELSE tlOwed[c][y]]]
    /\ UNCHANGED <<ret, tlSubs, tlChan, tlView, tlPending, tlTaken, tlLate, tlTicked,
                   tlSeen>>

\* Reader goroutine: the update becomes pending or is merged into it.
TailMerge ==
    /\ ~tlUpd.nil
    /\ tlPending' = IF tlPending.nil THEN tlUpd
                    ELSE [nil |-> FALSE,
                          rows |-> Copy(tlPending.rows, tlUpd.rows),
                          ver |-> Copy(tlPending.ver, tlUpd.ver),
                          cursorRow |-> tlUpd.cursorRow, cursorCol |-> tlUpd.cursorCol]
    /\ tlUpd' = TailNil
    /\ tlTicked' = FALSE
    /\ UNCHANGED <<scrVars, tlSubs, tlChan, tlView, tlTaken, tlVer, tlOwed, tlLate, tlSeen>>

\* The reader goes from Write's return to the end of the merge in less than
\* one tick interval (33 ms): at most one tick falls in between.
MergeAnyTime == TRUE
MergeInTime == tlUpd.nil \/ ~tlTicked

\* Send loop, case <-ticker.C: update := pending; pending = nil.
TailTick ==
    /\ tlTaken.nil
    /\ MergeInTime
    /\ tlTicked' = ~tlUpd.nil
    /\ tlTaken' = tlPending
    /\ tlPending' = TailNil
    /\ tlOwed' = [c \in TailChans |-> [y \in Ys |->
                     [i \in DOMAIN tlOwed[c][y] |->
                        IF tlOwed[c][y][i] < MaxAge THEN tlOwed[c][y][i] + 1 ELSE MaxAge]]]
    /\ tlLate' = [c \in TailChans |-> tlLate[c] \/ (c \in tlSubs /\ tlChan[c] # << >>)]
    /\ UNCHANGED <<scrVars, tlSubs, tlChan, tlView, tlUpd, tlVer, tlSeen>>

\* Send loop: the update is offered to every subscriber channel.
TailSend ==
    /\ ~tlTaken.nil
    /\ tlChan' = [c \in TailChans |->
                     IF c \in tlSubs THEN Offer(tlChan[c], tlTaken) ELSE tlChan[c]]
    /\ tlTaken' = TailNil
    /\ UNCHANGED <<scrVars, tlSubs, tlView, tlUpd, tlPending, tlVer, tlOwed, tlLate,
                   tlTicked, tlSeen>>

\* The reader of a subscriber channel takes the next update and lays its
\* rows over the row map it holds.
TailRecv(c) ==
    /\ tlChan[c] # << >>
    /\ LET u == Head(tlChan[c])
       IN  /\ tlView' = [tlView EXCEPT ![c] =
                            [y \in Ys |-> IF y \in DOMAIN u.rows THEN u.rows[y] ELSE @[y]]]
           /\ tlSeen' = [tlSeen EXCEPT ![c] =
                            [y \in Ys |-> IF y \in DOMAIN u.ver /\ u.ver[y] > @[y]
                                          THEN u.ver[y] ELSE @[y]]]
           /\ tlOwed' = [tlOwed EXCEPT ![c] =
                            [y \in Ys |->
                               IF y \in DOMAIN u.ver
                               THEN LET keep == IF tlVer[y] - u.ver[y] < Len(@[y])
                                                THEN tlVer[y] - u.ver[y] ELSE Len(@[y])
                                    IN  SubSeq(@[y], Len(@[y]) - keep + 1, Len(@[y]))
                               ELSE @[y]]]
    /\ tlChan' = [tlChan EXCEPT ![c] = Tail(@)]
    /\ UNCHANGED <<scrVars, tlSubs, tlUpd, tlPending, tlTaken, tlVer, tlLate, tlTicked>>

(***************************************************************************)
(* Registry watch loop: notifications, coalescing, re-run (section 4.3)    *)
(***************************************************************************)
NotifTypes == {"sessions-changed", "window-renamed", "output"}

\* The notification types that trigger a scan.
TriggersNone(type) == FALSE
Triggers(type) == type \in {"sessions-changed", "window-renamed"}

InitWatch ==
    /\ wQueue = << >>
    /\ wSent = 0
    /\ wScan = "idle"
    /\ wDirty = FALSE
    /\ wOwed = 0
    /\ wStarts = 0
    /\ wReruns = 0

\* The control channel publishes a notification.
Notify(type) ==
    /\ wSent < MaxNotifs
    /\ Len(wQueue) < NotifCap
    /\ wQueue' = Append(wQueue, type)
    /\ wSent' = wSent + 1
    /\ UNCHANGED <<wScan, wDirty, wOwed, wStarts, wReruns>>

\* A notification received while a scan runs marks it dirty.
DirtyForgotten(d) == d
DirtyMarked(d) == TRUE

\* Watch loop: take the next notification; a trigger starts a scan, or marks
\* the running scan dirty; any other type is ignored.
WatchRecv ==
    /\ wQueue # << >>
    /\ wQueue' = Tail(wQueue)
    /\ IF ~Triggers(Head(wQueue))
       THEN UNCHANGED <<wScan, wDirty, wOwed, wStarts>>
       ELSE IF wScan = "running"
            THEN /\ wDirty' = DirtyMarked(wDirty)
                 /\ wOwed' = wOwed + 1
                 /\ UNCHANGED <<wScan, wStarts>>
            ELSE /\ wScan' = "running"
                 /\ wStarts' = wStarts + 1
                 /\ wOwed' = 0
                 /\ UNCHANGED wDirty
    /\ UNCHANGED <<wSent, wReruns>>

\* The running scan completes: it re-runs once if the dirty flag is set.
ScanDone ==
    /\ wScan = "running"
    /\ IF wDirty
       THEN /\ wDirty' = FALSE
            /\ wStarts' = wStarts + 1
            /\ wReruns' = wReruns + 1
            /\ wOwed' = 0
            /\ UNCHANGED wScan
       ELSE /\ wScan' = "idle"
            /\ UNCHANGED <<wDirty, wStarts, wReruns, wOwed>>
    /\ UNCHANGED <<wQueue, wSent>>

(***************************************************************************)
(* Control channel: ControlMode.Execute.  Callers serialise on the mutex;  *)
(* the command line goes to the multiplexer, which answers commands in the *)
(* order it read them; the reader goroutine routes each reply block to the *)
(* single-element reply channel; Execute returns the reply it receives or  *)
(* gives up when its deadline passes.                                      *)
(***************************************************************************)
Executors == {"e1", "e2"}
MaxCmds == 3
ResponseCap == 1
CmdIds == 1..(MaxCmds + 1)
NoReply == 0
TimedOut == -1

InitCtrl ==
    /\ cmMu = "none"
    /\ cmPc = [k \in Executors |-> "idle"]
    /\ cmCmd = [k \in Executors |-> 0]
    /\ cmRet = [k \in Executors |-> NoReply]
    /\ cmWire = << >>
    /\ cmResp = << >>
    /\ cmNext = 0

\* Execute, first half: take the mutex and write the command line to the
\* multiplexer's stdin.  The command is numbered by issue order.
CmLockHeld(mu) == mu # "none"

ExecuteSend(k) ==
    /\ cmPc[k] = "idle"
    /\ ~CmLockHeld(cmMu)
    /\ cmNext < MaxCmds
    /\ cmMu' = k
    /\ cmNext' = cmNext + 1
    /\ cmCmd' = [cmCmd EXCEPT ![k] = cmNext + 1]
    /\ cmRet' = [cmRet EXCEPT ![k] = NoReply]
    /\ cmWire' = Append(cmWire, cmNext + 1)
    /\ cmPc' = [cmPc EXCEPT ![k] = "waiting"]
    /\ UNCHANGED cmResp

\* The reader goroutine: the multiplexer's next reply block (commands are
\* answered in the order they were read) is put into the reply channel.
ReaderRoute ==
    /\ cmWire # << >>
    /\ Len(cmResp) < ResponseCap
    /\ cmResp' = Append(cmResp, Head(cmWire))
    /\ cmWire' = Tail(cmWire)
    /\ UNCHANGED <<cmMu, cmPc, cmCmd, cmRet, cmNext>>

\* Execute, second half: the waiting caller receives what the reply channel
\* holds, returns it and releases the mutex.
ExecuteRecv(k) ==
    /\ cmPc[k] = "waiting"
    /\ cmResp # << >>
    /\ cmRet' = [cmRet EXCEPT ![k] = Head(cmResp)]
    /\ cmResp' = Tail(cmResp)
    /\ cmPc' = [cmPc EXCEPT ![k] = "idle"]
    /\ cmMu' = IF cmMu = k THEN "none" ELSE cmMu
    /\ UNCHANGED <<cmCmd, cmWire, cmNext>>

\* Execute, second half: the deadline passes first; the caller returns a
\* timeout error and releases the mutex.  The reply is still outstanding.
ExecuteTimeout(k) ==
    /\ cmPc[k] = "waiting"
    /\ cmRet' = [cmRet EXCEPT ![k] = TimedOut]
    /\ cmPc' = [cmPc EXCEPT ![k] = "idle"]
    /\ cmMu' = IF cmMu = k THEN "none" ELSE cmMu
    /\ UNCHANGED <<cmCmd, cmWire, cmResp, cmNext>>

(***************************************************************************)
(* Adapter server: lifecycle broadcast (wsadapter.Server).  Each client has *)
(* a "subscribed to lifecycle" flag, stored include / exclude filters and a *)
(* bounded outbound queue.                                                  *)
(***************************************************************************)
AdClients == {"w1", "w2"}
AdSendCap == 2
\* The filters a subscribe-agents request of the adapter protocol carries.
AdFilterInputs == {<<"", "">>, <<"a", "a">>, <<"a", "b">>, <<"b", "">>}
EventTypes == {"agent-added", "agent-removed", "agent-updated"}
NoEvent == [type |-> "none", name |-> ""]

InitAdapter ==
    /\ adClients = {}
    /\ agentSub = [c \in AdClients |-> FALSE]
    /\ adFilter = [c \in AdClients |-> NoFilter]
    /\ adSend = [c \in AdClients |-> << >>]
    /\ adEvent = NoEvent

\* Client.SendText: enqueue unless the outbound queue is full, then drop.
SendText(q, m) == IF Len(q) < AdSendCap THEN Append(q, m) ELSE q

\* ServeHTTP: the new client is registered under s.mu.
AdConnect(c) ==
    /\ c \notin adClients
    /\ adClients' = adClients \cup {c}
    /\ adEvent' = NoEvent
    /\ UNCHANGED <<agentSub, adFilter, adSend>>

\* RemoveClient: the client leaves s.clients and is closed.
RemoveClient(c) ==
    /\ c \in adClients
    /\ adClients' = adClients \ {c}
    /\ agentSub' = [agentSub EXCEPT ![c] = FALSE]
    /\ adFilter' = [adFilter EXCEPT ![c] = NoFilter]
    /\ adSend' = [adSend EXCEPT ![c] = << >>]
    /\ adEvent' = NoEvent

\* subscribe-agents: the filters are compiled and stored, the flag is set and
\* the response is enqueued.
AdSubscribeAgents(c, inc, exc) ==
    /\ c \in adClients
    /\ agentSub' = [agentSub EXCEPT ![c] = TRUE]
    /\ adFilter' = [adFilter EXCEPT ![c] = [include |-> inc, exclude |-> exc]]
    /\ adSend' = [adSend EXCEPT ![c] = SendText(@, Msg("subscribe-agents", ""))]
    /\ adEvent' = NoEvent
    /\ UNCHANGED adClients

\* unsubscribe-agents: the flag is cleared and the response is enqueued.
AdUnsubscribeAgents(c) ==
    /\ c \in adClients
    /\ agentSub' = [agentSub EXCEPT ![c] = FALSE]
    /\ adSend' = [adSend EXCEPT ![c] = SendText(@, Msg("unsubscribe-agents", ""))]
    /\ adEvent' = NoEvent
    /\ UNCHANGED <<adClients, adFilter>>

\* What BroadcastToAgentSubscribers leaves in the queue q of one subscribed
\* client: agents-count unless the event is agent-updated, then the event
\* itself if the agent's name passes the client's filters.
CountOnEveryEvent(type) == TRUE
CountWanted(type) == type # "agent-updated"
AdAfterCount(q, type) ==
    IF CountWanted(type) THEN SendText(q, Msg("agents-count", "")) ELSE q
AdAfterEvent(q, n, type, f) ==
    IF PassesFilter(n, f.include, f.exclude)
    THEN SendText(AdAfterCount(q, type), Msg(type, n))
    ELSE AdAfterCount(q, type)

\* BroadcastToAgentSubscribers(agentName, eventType, msg), under s.mu.
BroadcastToAgentSubscribers(n, type) ==
    /\ adSend' = [c \in AdClients |->
                    IF c \in adClients /\ agentSub[c]
                    THEN AdAfterEvent(adSend[c], n, type, adFilter[c])
                    ELSE adSend[c]]
    /\ adEvent' = [type |-> type, name |-> n]
    /\ UNCHANGED <<adClients, agentSub, adFilter>>

\* Client.WritePump: the next queued message is written to the connection.
AdWritePump(c) ==
    /\ c \in adClients
    /\ adSend[c] # << >>
    /\ adSend' = [adSend EXCEPT ![c] = Tail(@)]
    /\ adEvent' = NoEvent
    /\ UNCHANGED <<adClients, agentSub, adFilter>>

(***************************************************************************)
(* Conversation subscriptions of one client (wsconv.Client): c.subs,       *)
(* c.follows, c.pendingConvSubs and the tailing references the client      *)
(* holds in the watcher.                                                   *)
(***************************************************************************)
ConvAgents == {"x", "y"}
\* Conversation ids "runtime:agent:native"; the last one names no agent.
ConvIds == {"r:x:1", "r:x:2", "n1"}
extractAgentFromConvID(k) ==
    CASE k \in {"r:x:1", "r:x:2"} -> "x"
      [] k = "r:y:1" -> "y"
      [] OTHER -> ""
\* watcher.GetActiveConversation for a followed agent that has one
GetActiveConversation(a) == IF a = "x" THEN "r:x:1" ELSE "r:y:1"
\* subscriptions one client creates in a run, references it acquires per agent
MaxSubs == 3
MaxRefs == 3
SubIds == 1..MaxSubs
NoSub == 0
Subscription(id, agent, k, bufSub, cancel) ==
    [id |-> id, agentName |-> agent, conversationID |-> k, bufSubID |-> bufSub,
     cancel |-> cancel]
NotCleaned == [done |-> FALSE, subs |-> {}, pending |-> {},
               follows |-> [a \in ConvAgents |-> NoSub],
               released |-> [i \in SubIds |-> 0], cancelled |-> {}, unsubscribed |-> {}]

InitConv ==
    /\ cvOpen = TRUE
    /\ cvSubs = {}
    /\ cvFollows = [a \in ConvAgents |-> NoSub]
    /\ cvPending = {}
    /\ cvNextSub = 0
    /\ tailRefs = [a \in ConvAgents |-> 0]
    /\ cvDown = NotCleaned

\* watcher.EnsureTailing / ReleaseTailing as the client's own count per agent.
EnsureTailing(refs, a) == [refs EXCEPT ![a] = @ + 1]
ReleaseTailing(refs, a, n) == [refs EXCEPT ![a] = @ - n]
SubById(id) == {s \in cvSubs : s.id = id}

\* handleSubscribeConversation for conversation k: ensureOk is the outcome of
\* EnsureTailing, hasBuf whether watcher.GetBuffer finds the buffer.
handleSubscribeConversation(k, ensureOk, hasBuf) ==
    LET agent == extractAgentFromConvID(k)
        refs1 == IF agent # "" THEN EnsureTailing(tailRefs, agent) ELSE tailRefs
    IN  /\ cvOpen
        /\ agent # "" /\ ensureOk => tailRefs[agent] < MaxRefs
        /\ IF agent # "" /\ ~ensureOk
           THEN UNCHANGED <<cvSubs, cvPending, cvNextSub, tailRefs>>
           ELSE IF ~hasBuf /\ agent # ""
           THEN IF k \in cvPending
                THEN \* "already pending subscription": the handler returns
                     /\ tailRefs' = refs1
                     /\ UNCHANGED <<cvSubs, cvPending, cvNextSub>>
                ELSE /\ tailRefs' = refs1
                     /\ cvPending' = cvPending \cup {k}
                     /\ UNCHANGED <<cvSubs, cvNextSub>>
           ELSE IF ~hasBuf
           THEN UNCHANGED <<cvSubs, cvPending, cvNextSub, tailRefs>>
           ELSE /\ cvNextSub < MaxSubs
                /\ cvNextSub' = cvNextSub + 1
                /\ cvSubs' = cvSubs \cup {Subscription(cvNextSub + 1, agent, k, TRUE, FALSE)}
                /\ tailRefs' = refs1
                /\ UNCHANGED cvPending
        /\ UNCHANGED <<cvOpen, cvFollows, cvDown>>

\* handleFollowAgent for agent a: an existing follow is released first; bound
\* tells whether the agent has an active conversation whose buffer exists.
handleFollowAgent(a, ensureOk, bound) ==
    LET had == cvFollows[a] # NoSub
        refs0 == IF had THEN ReleaseTailing(tailRefs, a, 1) ELSE tailRefs
        subs0 == IF had THEN cvSubs \ SubById(cvFollows[a]) ELSE cvSubs
    IN  /\ cvOpen
        /\ ensureOk => (refs0[a] < MaxRefs /\ cvNextSub < MaxSubs)
        /\ IF ~ensureOk
           THEN /\ tailRefs' = refs0
                /\ cvSubs' = subs0
                /\ cvFollows' = [cvFollows EXCEPT ![a] = NoSub]
                /\ UNCHANGED cvNextSub
           ELSE /\ tailRefs' = EnsureTailing(refs0, a)
                /\ cvNextSub' = cvNextSub + 1
                /\ cvSubs' = subs0 \cup
                      {Subscription(cvNextSub + 1, a,
                                    IF bound THEN GetActiveConversation(a) ELSE "",
                                    bound, bound)}
                /\ cvFollows' = [cvFollows EXCEPT ![a] = cvNextSub + 1]
        /\ UNCHANGED <<cvOpen, cvPending, cvDown>>

\* handleUnsubscribe for subscription id.
handleUnsubscribe(id) ==
    /\ cvOpen
    /\ IF SubById(id) = {}
       THEN UNCHANGED <<cvSubs, cvFollows, tailRefs>>
       ELSE LET sub == CHOOSE s \in cvSubs : s.id = id
            IN  /\ cvSubs' = cvSubs \ {sub}
                /\ cvFollows' = IF sub.agentName # ""
                                THEN [cvFollows EXCEPT ![sub.agentName] = NoSub]
                                ELSE cvFollows
                /\ tailRefs' = IF sub.agentName # ""
                               THEN ReleaseTailing(tailRefs, sub.agentName, 1)
                               ELSE tailRefs
    /\ UNCHANGED <<cvOpen, cvPending, cvNextSub, cvDown>>

\* handleUnsubscribeAgent for agent a: the follow and every pending
\* subscribe-conversation of the agent are released.
handleUnsubscribeAgent(a) ==
    LET had == cvFollows[a] # NoSub
        mine == {k \in cvPending : extractAgentFromConvID(k) = a}
    IN  /\ cvOpen
        /\ cvSubs' = IF had THEN cvSubs \ SubById(cvFollows[a]) ELSE cvSubs
        /\ cvFollows' = [cvFollows EXCEPT ![a] = NoSub]
        /\ cvPending' = cvPending \ mine
        /\ tailRefs' = ReleaseTailing(tailRefs, a, (IF had THEN 1 ELSE 0) + Cardinality(mine))
        /\ UNCHANGED <<cvOpen, cvNextSub, cvDown>>

\* deliverConversationStarted for agent a's new conversation k: a follow that
\* waits for a conversation is bound to it, a pending subscribe-conversation
\* for k becomes a subscription or, without a buffer, is answered with an
\* error and released.
deliverConversationStarted(a, k, hasBuf) ==
    LET waits == {s \in SubById(cvFollows[a]) : s.conversationID = ""}
        subs1 == IF waits # {} /\ hasBuf
                 THEN (cvSubs \ waits) \cup
                      {Subscription(s.id, s.agentName, k, TRUE, TRUE) : s \in waits}
                 ELSE cvSubs
        agent == extractAgentFromConvID(k)
    IN  /\ cvOpen
        /\ IF k \notin cvPending
           THEN /\ cvSubs' = subs1
                /\ UNCHANGED <<cvPending, cvNextSub, tailRefs>>
           ELSE IF ~hasBuf
           THEN /\ cvPending' = cvPending \ {k}
                /\ tailRefs' = ReleaseTailing(tailRefs, agent, 1)
                /\ cvSubs' = subs1
                /\ UNCHANGED cvNextSub
           ELSE /\ cvNextSub < MaxSubs
                /\ cvPending' = cvPending \ {k}
                /\ cvNextSub' = cvNextSub + 1
                /\ cvSubs' = subs1 \cup {Subscription(cvNextSub + 1, agent, k, TRUE, TRUE)}
                /\ UNCHANGED tailRefs
        /\ UNCHANGED <<cvOpen, cvFollows, cvDown>>

\* The 30 s timer of a pending subscribe-conversation fires.
PendingTimeout(k) ==
    /\ cvOpen
    /\ k \in cvPending
    /\ cvPending' = cvPending \ {k}
    /\ tailRefs' = ReleaseTailing(tailRefs, extractAgentFromConvID(k), 1)
    /\ UNCHANGED <<cvOpen, cvSubs, cvFollows, cvNextSub, cvDown>>

\* cleanup releases through c.subs only: once per subscription with an agent.
ReleasesViaBoth(s) ==
    (IF s.agentName # "" THEN 1 ELSE 0)
    + (IF s.agentName # "" /\ cvFollows[s.agentName] = s.id THEN 1 ELSE 0)
ReleasesViaSubs(s) == IF s.agentName # "" THEN 1 ELSE 0

\* removeClient / cleanup: the client has left s.clients; every subscription
\* is unsubscribed from its buffer, cancelled and released, every pending
\* subscribe-conversation is released, and the maps are dropped.
cleanup ==
    /\ cvOpen
    /\ cvOpen' = FALSE
    /\ tailRefs' = [a \in ConvAgents |->
                      tailRefs[a]
                      - Cardinality({k \in cvPending : extractAgentFromConvID(k) = a})
                      - Cardinality({s \in cvSubs : s.agentName = a /\ ReleasesViaSubs(s) >= 1})
                      - Cardinality({s \in cvSubs : s.agentName = a /\ ReleasesViaSubs(s) >= 2})]
    /\ cvDown' = [done |-> TRUE, subs |-> cvSubs, pending |-> cvPending,
                  follows |-> cvFollows,
                  released |-> [i \in SubIds |->
                                   IF SubById(i) = {} THEN 0
                                   ELSE ReleasesViaSubs(CHOOSE s \in cvSubs : s.id = i)],
                  cancelled |-> {s.id : s \in {u \in cvSubs : u.cancel}},
                  unsubscribed |-> {s.id : s \in {u \in cvSubs : u.bufSubID}}]
    /\ cvSubs' = {}
    /\ cvFollows' = [a \in ConvAgents |-> NoSub]
    /\ cvPending' = {}
    /\ UNCHANGED cvNextSub

(***************************************************************************)
(* Pending subscribe-conversation requests (pendingConvSub): the request   *)
(* id each entry answers, its 30 s timer, and what each request received.  *)
(***************************************************************************)
\* pending requests one client creates in a run
MaxPend == 2
PendReqs == 1..MaxPend
NoReq == 0
Outcomes == {"snapshot", "timeout", "no-buffer", "cancelled"}
Answered == {"snapshot", "timeout", "no-buffer"}

InitPend ==
    /\ cvMsgOf = [k \in ConvIds |-> NoReq]
    /\ cvReqConv = [r \in PendReqs |-> ""]
    /\ cvTimer = [r \in PendReqs |-> "idle"]
    /\ cvAns = [r \in PendReqs |-> 0]
    /\ cvRel = [r \in PendReqs |-> 0]
    /\ cvOut = [r \in PendReqs |-> {}]

\* p, ok := c.pendingConvSubs[k]: the request of the entry, NoReq when the
\* entry has been deleted.
LookupPendingStale(k) == cvMsgOf[k]
LookupPending(k) == IF k \in cvPending THEN cvMsgOf[k] ELSE NoReq

\* pending.timer.Stop(): a timer that has not fired never fires; one whose
\* callback has started is not affected.
TimerStop(timers, R) ==
    [r \in PendReqs |-> IF r \in R /\ timers[r] = "armed" THEN "stopped" ELSE timers[r]]

\* The entries of K leave pendingConvSubs with the given outcome.
Resolved(K, outcome, released) ==
    LET R == {cvMsgOf[k] : k \in K}
    IN  /\ cvOut' = [r \in PendReqs |-> IF r \in R THEN cvOut[r] \cup {outcome} ELSE cvOut[r]]
        /\ cvAns' = [r \in PendReqs |->
                        IF r \in R /\ outcome \in Answered THEN cvAns[r] + 1 ELSE cvAns[r]]
        /\ cvRel' = [r \in PendReqs |-> IF r \in R /\ released THEN cvRel[r] + 1 ELSE cvRel[r]]

\* subscribe-conversation for a conversation whose buffer does not exist yet:
\* a new entry gets the request id and a timer.
PendSubscribe(k) ==
    LET r == Cardinality({q \in PendReqs : cvTimer[q] # "idle"}) + 1
    IN  /\ k \notin cvPending => r <= MaxPend
        /\ handleSubscribeConversation(k, TRUE, FALSE)
        /\ IF k \in cvPending
           THEN UNCHANGED <<cvMsgOf, cvReqConv, cvTimer>>
           ELSE /\ cvMsgOf' = [cvMsgOf EXCEPT ![k] = r]
                /\ cvReqConv' = [cvReqConv EXCEPT ![r] = k]
                /\ cvTimer' = [cvTimer EXCEPT ![r] = "armed"]
        /\ UNCHANGED <<cvAns, cvRel, cvOut>>

\* The 30 s of request r pass: its callback starts and waits for c.mu.
TimerFire(r) ==
    /\ cvTimer[r] = "armed"
    /\ cvTimer' = [cvTimer EXCEPT ![r] = "fired"]
    /\ UNCHANGED <<convVars, cvMsgOf, cvReqConv, cvAns, cvRel, cvOut>>

\* The callback of request r's timer, with c.mu: it answers and releases
\* the entry now stored under its conversation id, if there is one.
TimerCallback(r) ==
    LET k == cvReqConv[r]
        p == LookupPending(k)
    IN  /\ cvTimer[r] = "fired"
        /\ cvTimer' = [cvTimer EXCEPT ![r] = "done"]
        /\ IF p = NoReq
           THEN UNCHANGED <<convVars, cvAns, cvRel, cvOut>>
           ELSE /\ cvPending' = cvPending \ {k}
                /\ tailRefs' = ReleaseTailing(tailRefs, extractAgentFromConvID(k), 1)
                /\ cvOut' = [cvOut EXCEPT ![p] = @ \cup {"timeout"}]
                /\ cvAns' = [cvAns EXCEPT ![p] = @ + 1]
                /\ cvRel' = [cvRel EXCEPT ![p] = @ + 1]
                /\ UNCHANGED <<cvOpen, cvSubs, cvFollows, cvNextSub, cvDown>>
        /\ UNCHANGED <<cvMsgOf, cvReqConv>>

\* conversation-started for conversation k reaches the client.
PendStarted(a, k, hasBuf) ==
    /\ deliverConversationStarted(a, k, hasBuf)
    /\ IF k \in cvPending
       THEN /\ cvTimer' = TimerStop(cvTimer, {cvMsgOf[k]})
            /\ Resolved({k}, IF hasBuf THEN "snapshot" ELSE "no-buffer", ~hasBuf)
       ELSE UNCHANGED <<cvTimer, cvAns, cvRel, cvOut>>
    /\ UNCHANGED <<cvMsgOf, cvReqConv>>

\* unsubscribe-agent: the agent's pending entries are dropped without a reply.
PendUnsubscribeAgent(a) ==
    LET mine == {k \in cvPending : extractAgentFromConvID(k) = a}
    IN  /\ handleUnsubscribeAgent(a)
        /\ cvTimer' = TimerStop(cvTimer, {cvMsgOf[k] : k \in mine})
        /\ Resolved(mine, "cancelled", TRUE)
        /\ UNCHANGED <<cvMsgOf, cvReqConv>>

\* The client disconnects: cleanup drops every pending entry.
PendCleanup ==
    /\ cleanup
    /\ cvTimer' = TimerStop(cvTimer, {cvMsgOf[k] : k \in cvPending})
    /\ Resolved(cvPending, "cancelled", TRUE)
    /\ UNCHANGED <<cvMsgOf, cvReqConv>>

(***************************************************************************)
(* A client's two pumps: Client.run, readPump, writePump and the deferred  *)
(* removeClient of HandleWebSocket.                                        *)
(***************************************************************************)
PumpClients == {"p1", "p2"}
\* capacity of the outbound queue of a pumped client (256 in the program)
PumpCap == 2

\* newClient, s.addClient(client), client.run(): both pumps are running.
InitPumps ==
    /\ pmRead = [c \in PumpClients |-> "reading"]
    /\ pmWrite = [c \in PumpClients |-> "waiting"]
    /\ pmConn = [c \in PumpClients |-> "open"]
    /\ pmCtx = [c \in PumpClients |-> FALSE]
    /\ pmIn = [c \in PumpClients |-> TRUE]
    /\ pmCleanups = [c \in PumpClients |-> 0]
    /\ pmSend = [c \in PumpClients |-> 0]

\* A reply or a broadcast is queued for a client of the server's set.
PumpEnqueue(c) ==
    /\ pmIn[c]
    /\ pmSend[c] < PumpCap
    /\ pmSend' = [pmSend EXCEPT ![c] = @ + 1]
    /\ UNCHANGED <<pmRead, pmWrite, pmConn, pmCtx, pmIn, pmCleanups>>

\* writePump, case msg := <-c.send: the message is taken and conn.Write starts.
WriteTake(c) ==
    /\ pmWrite[c] = "waiting"
    /\ pmSend[c] > 0
    /\ pmSend' = [pmSend EXCEPT ![c] = @ - 1]
    /\ pmWrite' = [pmWrite EXCEPT ![c] = "writing"]
    /\ UNCHANGED <<pmRead, pmConn, pmCtx, pmIn, pmCleanups>>

\* conn.Write returns nil: possible on an open connection whose context lives.
WriteOk(c) ==
    /\ pmWrite[c] = "writing"
    /\ pmConn[c] = "open" /\ ~pmCtx[c]
    /\ pmWrite' = [pmWrite EXCEPT ![c] = "waiting"]
    /\ UNCHANGED <<pmRead, pmConn, pmCtx, pmIn, pmCleanups, pmSend>>

\* conn.Write returns an error (failure, or the 5 s timeout): writePump
\* returns and its deferred conn.Close runs.
WriteFails(c) ==
    /\ pmWrite[c] = "writing"
    /\ pmWrite' = [pmWrite EXCEPT ![c] = "returned"]
    /\ pmConn' = [pmConn EXCEPT ![c] = "closed"]
    /\ UNCHANGED <<pmRead, pmCtx, pmIn, pmCleanups, pmSend>>

\* writePump, case <-c.ctx.Done(): return, with the deferred conn.Close.
WriteCtxDone(c) ==
    /\ pmWrite[c] = "waiting"
    /\ pmCtx[c]
    /\ pmWrite' = [pmWrite EXCEPT ![c] = "returned"]
    /\ pmConn' = [pmConn EXCEPT ![c] = "closed"]
    /\ UNCHANGED <<pmRead, pmCtx, pmIn, pmCleanups, pmSend>>

\* readPump: defer c.cancel().
CancelForgotten(ctx, c) == ctx
Cancel(ctx, c) == [ctx EXCEPT ![c] = TRUE]

\* readPump: conn.Read returns an error; closedByUs tells whether it is the
\* write pump's Close or the peer (or the network) that ended the read.
ReadReturns(c, closedByUs) ==
    /\ pmRead[c] = "reading"
    /\ closedByUs <=> pmConn[c] = "closed"
    /\ pmRead' = [pmRead EXCEPT ![c] = "returned"]
    /\ pmCtx' = Cancel(pmCtx, c)
    /\ UNCHANGED <<pmWrite, pmConn, pmIn, pmCleanups, pmSend>>

\* client.run() has returned: the deferred s.removeClient(client) deletes the
\* client from s.clients and runs its cleanup.
PumpRemoveClient(c) ==
    /\ pmRead[c] = "returned"
    /\ pmIn[c]
    /\ pmIn' = [pmIn EXCEPT ![c] = FALSE]
    /\ pmCleanups' = [pmCleanups EXCEPT ![c] = @ + 1]
    /\ UNCHANGED <<pmRead, pmWrite, pmConn, pmCtx, pmSend>>

(***************************************************************************)
(* The read pump's dispatch of requests that have side effects: binary     *)
(* file-upload frames and send-prompt.                                     *)
(***************************************************************************)
InitGate ==
    /\ uploads = {}
    /\ prompts = {}

Effect(c) == [c |-> c, handshakeDone |-> handshakeDone[c]]

\* readPump, typ == MessageBinary: handleBinaryMessage. A frame that parses
\* as a file upload starts the goroutine that saves the file and pastes its
\* path into the agent's pane; any other frame is answered with an error.
handleBinaryMessage(c, valid) ==
    /\ c \in clients
    /\ IF valid
       THEN /\ uploads' = uploads \cup {Effect(c)}
            /\ UNCHANGED send
       ELSE /\ send' = [send EXCEPT ![c] = sendJSON(@, Msg("error", ""))]
            /\ UNCHANGED uploads
    /\ UNCHANGED <<clients, handshakeDone, subscribedAgents, sessionFilter, unmatched,
                   lostRem, everFiltered, tracked, replyDue, prompts, op>>
    /\ UNCHANGED regVars

\* handleTextMessage, type send-prompt: handleSendPrompt starts the prompt's
\* goroutine once the handshake is done.
handleSendPrompt(c) ==
    /\ c \in clients
    /\ IF NeedsHandshake(handshakeDone[c])
       THEN /\ send' = [send EXCEPT ![c] = sendJSON(@, Msg("error", ""))]
            /\ UNCHANGED prompts
       ELSE /\ prompts' = prompts \cup {Effect(c)}
            /\ UNCHANGED send
    /\ UNCHANGED <<clients, handshakeDone, subscribedAgents, sessionFilter, unmatched,
                   lostRem, everFiltered, tracked, replyDue, uploads, op>>
    /\ UNCHANGED regVars

(***************************************************************************)
(* Conversation switches of a followed agent: the watcher's active         *)
(* conversation, the buffers that exist, and the events the client gets.   *)
(***************************************************************************)
SwAgents == {"x", "y"}
SwConvs(a) == IF a = "x" THEN {"r:x:1", "r:x:2"} ELSE {"r:y:1"}

InitSwitch ==
    /\ cvCurrent = [a \in SwAgents |-> ""]
    /\ cvBuf = {}

\* deliverConversationSwitch for agent a, whose conversation is now k: the
\* follow leaves its old buffer and its stream is cancelled; when the new
\* buffer exists the follow is bound to it, otherwise the handler returns.
deliverConversationSwitch(a, k, hasBuf) ==
    LET follow == SubById(cvFollows[a])
    IN  /\ cvOpen
        /\ cvSubs' = IF follow # {} /\ hasBuf
                     THEN (cvSubs \ follow) \cup
                          {Subscription(s.id, s.agentName, k, TRUE, TRUE) : s \in follow}
                     ELSE cvSubs
        /\ UNCHANGED <<cvOpen, cvFollows, cvPending, cvNextSub, tailRefs, cvDown>>

\* follow-agent: the follow is bound when the agent has an active
\* conversation whose buffer exists.
SwFollow(a) ==
    LET bound == cvCurrent[a] # "" /\ cvCurrent[a] \in cvBuf
    IN  /\ bound => cvCurrent[a] = GetActiveConversation(a)
        /\ handleFollowAgent(a, TRUE, bound)
        /\ UNCHANGED swVars

\* The watcher finds conversation k of agent a, creates its buffer and
\* broadcasts conversation-started.
SwStarted(a, k) ==
    /\ k \notin cvBuf
    /\ cvCurrent[a] \in {"", k}
    /\ cvCurrent' = [cvCurrent EXCEPT ![a] = k]
    /\ cvBuf' = cvBuf \cup {k}
    /\ deliverConversationStarted(a, k, TRUE)

\* The agent moves to conversation k and the watcher broadcasts
\* conversation-switched, with or without a buffer for k.
SwSwitch(a, k) ==
    /\ cvCurrent[a] \notin {"", k}
    /\ cvCurrent' = [cvCurrent EXCEPT ![a] = k]
    /\ UNCHANGED cvBuf
    /\ deliverConversationSwitch(a, k, k \in cvBuf)

(***************************************************************************)
(* The client set of one WebSocket server, guarded by s.mu.  A broadcast   *)
(* iterates s.clients with the lock held; a removal deletes the client     *)
(* under the lock and closes it after unlocking.  rmKind tells the adapter *)
(* server (BroadcastToAgentSubscribers, RemoveClient, CloseAll) from the   *)
(* conversation server (Broadcast, removeClient).                          *)
(***************************************************************************)
RmClients == {"k1", "k2"}
RmCap == 2
RmKinds == {"adapter", "converter"}
RmEvents(kind) ==
    IF kind = "converter" THEN {"lifecycle", "conversation-started"} ELSE {"lifecycle"}

InitRemoval(kind) ==
    /\ rmKind = kind
    /\ rmClients = {}
    /\ rmMu = ""
    /\ rmTodo = {}
    /\ rmEvent = "none"
    /\ rmPc = [c \in RmClients |-> "out"]
    /\ rmGone = [c \in RmClients |-> FALSE]
    /\ rmSub = [c \in RmClients |-> FALSE]
    /\ rmMaps = [c \in RmClients |-> "empty"]
    /\ rmSend = [c \in RmClients |-> 0]
    /\ rmAll = [pc |-> "idle", todo |-> {}, cur |-> ""]
    /\ rmJoined = FALSE

\* SendText / sendJSON on the bounded queue: enqueue, or drop when full.
RmEnqueue(n) == IF n < RmCap THEN n + 1 ELSE n

\* ServeHTTP / addClient: the new client enters s.clients under s.mu.
RmConnect(c) ==
    /\ rmMu = ""
    /\ rmPc[c] = "out"
    /\ rmClients' = rmClients \cup {c}
    /\ rmPc' = [rmPc EXCEPT ![c] = "run"]
    /\ rmJoined' = (rmJoined \/ rmAll.pc = "removing")
    /\ UNCHANGED <<rmKind, rmMu, rmTodo, rmEvent, rmGone, rmSub, rmMaps, rmSend, rmAll>>

\* The client's first subscribe-agents, handled by its read pump: the flag
\* is set under the client's own mutex and the response is enqueued.
RmSubscribeAgents(c) ==
    /\ rmPc[c] = "run"
    /\ ~rmSub[c]
    /\ rmSub' = [rmSub EXCEPT ![c] = TRUE]
    /\ rmSend' = [rmSend EXCEPT ![c] = RmEnqueue(@)]
    /\ UNCHANGED <<rmKind, rmClients, rmMu, rmTodo, rmEvent, rmPc, rmGone, rmMaps,
                   rmAll, rmJoined>>

\* follow-agent on the conversation server for an agent that has no
\* conversation yet: the follow is stored pending in c.follows and c.subs.
RmFollowAgent(c) ==
    /\ rmKind = "converter"
    /\ rmPc[c] = "run"
    /\ rmMaps[c] = "empty"
    /\ rmMaps' = [rmMaps EXCEPT ![c] = "pending"]
    /\ rmSend' = [rmSend EXCEPT ![c] = RmEnqueue(@)]
    /\ UNCHANGED <<rmKind, rmClients, rmMu, rmTodo, rmEvent, rmPc, rmGone, rmSub,
                   rmAll, rmJoined>>

\* The holder of s.mu while a broadcast iterates s.clients: the lock is
\* released by the deferred Unlock only.
LockDropped(who) == ""
LockHeld(who) == who

\* Broadcast / BroadcastToAgentSubscribers: s.mu.Lock(), then the range
\* over s.clients begins.
BroadcastLock(e) ==
    /\ rmMu = ""
    /\ rmEvent = "none"
    /\ rmMu' = LockHeld("broadcast")
    /\ rmEvent' = e
    /\ rmTodo' = rmClients
    /\ UNCHANGED <<rmKind, rmClients, rmPc, rmGone, rmSub, rmMaps, rmSend, rmAll, rmJoined>>

\* One iteration of the range: a lifecycle event is enqueued to a subscribed
\* client; conversation-started binds a pending follow (deliverConversationStarted)
\* and enqueues the event.
BroadcastVisit(c) ==
    /\ rmEvent # "none"
    /\ c \in rmTodo
    /\ rmTodo' = rmTodo \ {c}
    /\ IF rmEvent = "lifecycle"
       THEN /\ rmSend' = [rmSend EXCEPT ![c] = IF rmSub[c] THEN RmEnqueue(@) ELSE @]
            /\ UNCHANGED rmMaps
       ELSE /\ rmSend' = [rmSend EXCEPT ![c] =
                            IF rmMaps[c] = "pending" THEN RmEnqueue(@) ELSE @]
            /\ rmMaps' = [rmMaps EXCEPT ![c] = IF @ = "pending" THEN "bound" ELSE @]
    /\ UNCHANGED <<rmKind, rmClients, rmMu, rmEvent, rmPc, rmGone, rmSub, rmAll, rmJoined>>

\* The broadcast returns and the deferred s.mu.Unlock() runs.
BroadcastUnlock ==
    /\ rmEvent # "none"
    /\ rmTodo = {}
    /\ rmMu' = ""
    /\ rmEvent' = "none"
    /\ UNCHANGED <<rmKind, rmClients, rmTodo, rmPc, rmGone, rmSub, rmMaps, rmSend,
                   rmAll, rmJoined>>

\* RemoveClient / removeClient, called by the client's own handler once its
\* read pump has returned: delete(s.clients, c) under s.mu.
RemoveDelete(c) ==
    /\ rmMu = ""
    /\ rmPc[c] = "run"
    /\ rmClients' = rmClients \ {c}
    /\ rmPc' = [rmPc EXCEPT ![c] = "deleted"]
    /\ UNCHANGED <<rmKind, rmMu, rmTodo, rmEvent, rmGone, rmSub, rmMaps, rmSend,
                   rmAll, rmJoined>>

\* ... then client.Close() / c.cleanup() outside s.mu, and the removal
\* returns; cleanup sets c.subs, c.follows and c.pendingConvSubs to nil.
RemoveClose(c) ==
    /\ rmPc[c] = "deleted"
    /\ rmPc' = [rmPc EXCEPT ![c] = "returned"]
    /\ rmGone' = [rmGone EXCEPT ![c] = TRUE]
    /\ rmMaps' = [rmMaps EXCEPT ![c] = IF rmKind = "converter" THEN "nil" ELSE @]
    /\ UNCHANGED <<rmKind, rmClients, rmMu, rmTodo, rmEvent, rmSub, rmSend, rmAll, rmJoined>>

\* CloseAll: the client set is copied under s.mu, which is then released.
CloseAllSnapshot ==
    /\ rmKind = "adapter"
    /\ rmMu = ""
    /\ rmAll.pc = "idle"
    /\ rmAll' = [pc |-> "removing", todo |-> rmClients, cur |-> ""]
    /\ UNCHANGED <<rmKind, rmClients, rmMu, rmTodo, rmEvent, rmPc, rmGone, rmSub, rmMaps,
                   rmSend, rmJoined>>

\* CloseAll's loop calls s.RemoveClient(c) for the next copied client: the
\* delete under s.mu ...
CloseAllDelete(c) ==
    /\ rmAll.pc = "removing"
    /\ rmAll.cur = ""
    /\ c \in rmAll.todo
    /\ rmMu = ""
    /\ rmClients' = rmClients \ {c}
    /\ rmAll' = [rmAll EXCEPT !.cur = c, !.todo = @ \ {c}]
    /\ UNCHANGED <<rmKind, rmMu, rmTodo, rmEvent, rmPc, rmGone, rmSub, rmMaps, rmSend,
                   rmJoined>>

\* ... and client.Close(), after which that RemoveClient has returned.
CloseAllClose ==
    /\ rmAll.cur # ""
    /\ rmGone' = [rmGone EXCEPT ![rmAll.cur] = TRUE]
    /\ rmAll' = [rmAll EXCEPT !.cur = ""]
    /\ UNCHANGED <<rmKind, rmClients, rmMu, rmTodo, rmEvent, rmPc, rmSub, rmMaps, rmSend,
                   rmJoined>>

\* CloseAll returns when its copy is exhausted.
CloseAllReturn ==
    /\ rmAll.pc = "removing"
    /\ rmAll.cur = ""
    /\ rmAll.todo = {}
    /\ rmAll' = [rmAll EXCEPT !.pc = "done"]
    /\ UNCHANGED <<rmKind, rmClients, rmMu, rmTodo, rmEvent, rmPc, rmGone, rmSub, rmMaps,
                   rmSend, rmJoined>>

Init ==
    /\ InitPipe
    /\ InitPrompt
    /\ InitRegistryWith(<<>>, {})
    /\ InitServer
    /\ InitScreen
    /\ InitCalls
    /\ InitTail
    /\ InitWatch
    /\ InitCtrl
    /\ InitAdapter
    /\ InitConv
    /\ InitPend
    /\ InitFlush
    /\ InitPumps
    /\ InitGate
    /\ InitSwitch
    /\ InitRemoval("adapter")
    /\ op = NoOp

\* Nothing is torn down outside Unsubscribe and StopAll.
NoTearDown == UNCHANGED <<closes, stops, removes>>

NextPipe ==
    \/ \E s \in Sessions : Subscribe(s) /\ NoTearDown
    \/ \E s \in Sessions, c \in ChanIds : Unsubscribe(s, c)
    \/ StopAll
    \/ \E i \in StreamIds : TailOpen(i) /\ NoTearDown
    \/ \E i \in StreamIds, d \in Updates : TailRead(i, d) /\ NoTearDown
    \/ \E i \in StreamIds : Flush(i) /\ NoTearDown
    \/ \E i \in StreamIds : TailExit(i) /\ NoTearDown
    \/ \E c \in ChanIds : Recv(c) /\ NoTearDown

Next ==
    /\ NextPipe
    /\ UNCHANGED atSubscribe
    /\ UNCHANGED <<promptVars, regVars, srvVars, scrVars, callVars, tailVars, replyVars,
                   watchVars, cmVars, adVars, convVars, pendVars, flushVars, pumpVars, gateVars, swVars, rmVars>>

Spec == Init /\ [][Next]_vars

NextPrompt ==
    /\ \/ \E a \in Agents : HandleSendPrompt(a)
       \/ \E a \in Agents : HandleFileUpload(a)
       \/ \E r \in ReqIds : Acquire(r)
       \/ \E r \in ReqIds, ok \in BOOLEAN : IssueCall(r, ok, TRUE)
       \/ \E r \in ReqIds : Reply(r, TRUE)
       \/ \E r \in ReqIds : Release(r)
    /\ UNCHANGED <<pipeVars, regVars, srvVars, scrVars, callVars, tailVars, watchVars, cmVars, adVars, downVars, convVars, pendVars, flushVars, pumpVars, gateVars, swVars, rmVars>>

SpecPrompt == Init /\ [][NextPrompt]_vars

\* Prompts for one agent, with every outcome of every call: failed calls,
\* attached or detached session, full or free send queue.
NextInject ==
    /\ \/ HandleSendPrompt("X")
       \/ \E r \in ReqIds : Acquire(r)
       \/ \E r \in ReqIds, ok, att \in BOOLEAN : IssueCall(r, ok, att)
       \/ \E r \in ReqIds, room \in BOOLEAN : Reply(r, room)
       \/ \E r \in ReqIds : Release(r)
    /\ UNCHANGED <<pipeVars, regVars, srvVars, scrVars, callVars, tailVars, watchVars, cmVars, adVars, downVars, convVars, pendVars, flushVars, pumpVars, gateVars, swVars, rmVars>>

SpecInject == Init /\ [][NextInject]_vars

\* The server with no client's event history kept.
InitServe ==
    /\ InitPipe
    /\ InitPrompt
    /\ InitRegistryWith(<<>>, {})
    /\ InitServerWith({})
    /\ InitScreen
    /\ InitCalls
    /\ InitTail
    /\ InitWatch
    /\ InitCtrl
    /\ InitAdapter
    /\ InitConv
    /\ InitPend
    /\ InitFlush
    /\ InitPumps
    /\ InitGate
    /\ InitSwitch
    /\ InitRemoval("adapter")
    /\ op = NoOp

InitReg ==
    /\ InitPipe
    /\ InitPrompt
    /\ InitRegistry
    /\ InitServer
    /\ InitScreen
    /\ InitCalls
    /\ InitTail
    /\ InitWatch
    /\ InitCtrl
    /\ InitAdapter
    /\ InitConv
    /\ InitPend
    /\ InitFlush
    /\ InitPumps
    /\ InitGate
    /\ InitSwitch
    /\ InitRemoval("adapter")
    /\ op = NoOp

NextRegistry ==
    /\ \/ ScanListFails
       \/ \E w \in Worlds : ScanBegin(w)
       \/ EmitOne
       \/ ScanEnd
       \/ Observe
    /\ UNCHANGED <<pipeVars, promptVars, srvVars, scrVars, callVars, tailVars, replyVars, watchVars, cmVars, adVars, downVars, convVars, pendVars, flushVars, pumpVars, gateVars, swVars, rmVars>>

SpecRegistry == InitReg /\ [][NextRegistry]_vars

NextLifecycle ==
    /\ \/ \E w \in LifecycleWorlds : Rescan(w)
       \/ Broadcast
       \/ \E c \in LifecycleClients : ClientConnect(c)
       \/ \E c \in LifecycleClients : removeClient(c)
       \/ \E c \in LifecycleClients : handleHello(c, TRUE)
       \/ \E c \in LifecycleClients, f \in FilterInputs : handleSubscribeAgents(c, f[1], f[2])
       \/ \E c \in LifecycleClients : writePump(c)
    /\ UNCHANGED <<pipeVars, promptVars, scrVars, callVars, tailVars, replyVars, watchVars, cmVars, adVars, downVars, convVars, pendVars, flushVars, pumpVars, gateVars, swVars, rmVars>>

SpecLifecycle == Init /\ [][NextLifecycle]_vars

NextScreen ==
    /\ \/ \E data \in Datas : Write(data)
       \/ Snapshot
    /\ UNCHANGED <<pipeVars, promptVars, regVars, srvVars, callVars, tailVars, replyVars, watchVars, cmVars, adVars, downVars, convVars, pendVars, flushVars, pumpVars, gateVars, swVars, rmVars>>

SpecScreen == Init /\ [][NextScreen]_vars

NextCalls ==
    /\ \/ \E k \in Callers, data \in CallDatas : Call(k, "Write", data)
       \/ \E k \in Callers : Call(k, "Snapshot", << >>)
       \/ \E k \in Callers : Enter(k)
       \/ \E k \in Callers : RowStep(k)
       \/ \E k \in Callers : Return(k)
    /\ UNCHANGED <<pipeVars, promptVars, regVars, srvVars, tailVars, replyVars, watchVars, cmVars, adVars, downVars, convVars, pendVars, flushVars, pumpVars, gateVars, swVars, rmVars>>

SpecCalls == Init /\ [][NextCalls]_vars

NextTail ==
    /\ \/ \E c \in TailChans : TailSubscribe(c)
       \/ \E data \in TailDatas : TailWrite(data)
       \/ TailMerge
       \/ TailTick
       \/ TailSend
       \/ \E c \in TailChans : TailRecv(c)
    /\ UNCHANGED <<pipeVars, promptVars, regVars, srvVars, callVars, replyVars, watchVars, cmVars, adVars, downVars, convVars, pendVars, flushVars, pumpVars, gateVars, swVars, rmVars, op>>

SpecTail == Init /\ [][NextTail]_vars

NextWatch ==
    /\ \/ \E type \in NotifTypes : Notify(type)
       \/ WatchRecv
       \/ ScanDone
    /\ UNCHANGED <<pipeVars, promptVars, regVars, srvVars, scrVars, callVars, tailVars,
                   replyVars, cmVars, adVars, downVars, convVars, pendVars, flushVars, pumpVars, gateVars, swVars, rmVars, op>>

\* The watch loop goroutine and the scan keep running: a notification in the
\* channel is taken, a running scan completes.
SpecWatch ==
    Init /\ [][NextWatch]_vars /\ WF_watchVars(WatchRecv) /\ WF_watchVars(ScanDone)

NextCtrl ==
    /\ \/ \E k \in Executors : ExecuteSend(k)
       \/ ReaderRoute
       \/ \E k \in Executors : ExecuteRecv(k)
       \/ \E k \in Executors : ExecuteTimeout(k)
    /\ UNCHANGED <<pipeVars, promptVars, regVars, srvVars, scrVars, callVars, tailVars,
                   replyVars, watchVars, adVars, downVars, convVars, pendVars, flushVars, pumpVars, gateVars, swVars, rmVars, op>>

SpecCtrl == Init /\ [][NextCtrl]_vars

\* Client w1 sends every request and is drained; client w2 subscribes without
\* filters and is never drained.
NextAdapter ==
    /\ \/ \E c \in AdClients : AdConnect(c)
       \/ \E c \in AdClients : RemoveClient(c)
       \/ \E f \in AdFilterInputs : AdSubscribeAgents("w1", f[1], f[2])
       \/ AdSubscribeAgents("w2", "", "")
       \/ AdUnsubscribeAgents("w1")
       \/ \E type \in EventTypes : BroadcastToAgentSubscribers("a", type)
       \/ AdWritePump("w1")
    /\ UNCHANGED <<pipeVars, promptVars, regVars, srvVars, scrVars, callVars, tailVars,
                   replyVars, watchVars, cmVars, downVars, convVars, pendVars, flushVars, pumpVars, gateVars, swVars, rmVars, op>>

SpecAdapter == Init /\ [][NextAdapter]_vars

\* Two clients of the conversation server, both past the handshake.  Client
\* c1 subscribes with or without an exclude filter, is drained and may
\* disconnect; client c2 subscribes without filters, is never drained and
\* stays connected.  Session a comes and goes.
ServeWorlds == {w \in LifecycleWorlds : ~w["a"].att}
ServeFilters == {f \in FilterInputs : Compiles(f[1])}

NextServe ==
    /\ \/ \E w \in ServeWorlds : Rescan(w)
       \/ Broadcast
       \/ \E c \in Clients : ClientConnect(c)
       \/ removeClient("c1")
       \/ \E c \in Clients : handleHello(c, TRUE)
       \/ \E f \in ServeFilters : subscribeAgentsStore("c1", f[1], f[2])
       \/ subscribeAgentsStore("c2", "", "")
       \/ \E c \in Clients : subscribeAgentsReply(c)
       \/ writePump("c1")
    /\ UNCHANGED <<pipeVars, promptVars, scrVars, callVars, tailVars, replyVars, watchVars,
                   cmVars, adVars, downVars, convVars, pendVars, flushVars, pumpVars, gateVars, swVars, rmVars>>

\* Requests of two clients before and after the handshake; no registry event.
NextHandshake ==
    /\ \/ \E c \in Clients : ClientConnect(c)
       \/ \E c \in Clients : removeClient(c)
       \/ \E c \in Clients, protoOk \in BOOLEAN : handleHello(c, protoOk)
       \/ \E c \in Clients, f \in FilterInputs : handleSubscribeAgents(c, f[1], f[2])
       \/ \E c \in Clients : writePump(c)
    /\ UNCHANGED <<pipeVars, promptVars, scrVars, callVars, tailVars, replyVars, watchVars,
                   cmVars, adVars, downVars, convVars, pendVars, flushVars, pumpVars, gateVars, swVars, rmVars>>

SpecHandshake == InitServe /\ [][NextHandshake]_vars

SpecServe == InitServe /\ [][NextServe]_vars

\* Calls of Subscribe, Unsubscribe and StopAll alone; every Subscribe records
\* the streams and the subscriber sets it found, its session and the channel
\* it returned (0: none); age counts the calls made since, up to two.
Aged(b) == [b EXCEPT !.age = IF @ < 2 THEN @ + 1 ELSE @]

NextManager ==
    /\ \/ /\ \E s \in Sessions : Subscribe(s)
          /\ atSubscribe' = [active |-> ActiveSessions,
                             subs |-> [s \in Sessions |-> SubscribersOf(s)],
                             s |-> op'.s, ch |-> op'.c, age |-> 0]
          /\ NoTearDown
       \/ /\ \E s \in Sessions, c \in ChanIds : Unsubscribe(s, c)
          /\ atSubscribe' = Aged(atSubscribe)
       \/ /\ StopAll
          /\ atSubscribe' = Aged(atSubscribe)
    /\ UNCHANGED <<promptVars, regVars, srvVars, scrVars, callVars, tailVars, replyVars,
                   watchVars, cmVars, adVars, convVars, pendVars, flushVars, pumpVars, gateVars, swVars, rmVars>>

SpecManager == Init /\ [][NextManager]_vars

NextConv ==
    /\ \/ \E k \in ConvIds, ensureOk \in BOOLEAN, hasBuf \in BOOLEAN :
             handleSubscribeConversation(k, ensureOk, hasBuf)
       \/ \E a \in ConvAgents, ensureOk \in BOOLEAN, bound \in BOOLEAN :
             handleFollowAgent(a, ensureOk, bound)
       \/ \E id \in SubIds : handleUnsubscribe(id)
       \/ \E a \in ConvAgents : handleUnsubscribeAgent(a)
       \/ \E a \in ConvAgents, k \in ConvIds, hasBuf \in BOOLEAN :
             deliverConversationStarted(a, k, hasBuf)
       \/ \E k \in ConvIds : PendingTimeout(k)
       \/ cleanup
    /\ UNCHANGED <<pipeVars, promptVars, regVars, srvVars, scrVars, callVars, tailVars,
                   replyVars, watchVars, cmVars, adVars, downVars, pendVars, flushVars, pumpVars, gateVars, swVars, rmVars, op>>

SpecConv == Init /\ [][NextConv]_vars

PendConvs == {"r:x:1", "r:x:2"}

NextPending ==
    /\ \/ \E k \in PendConvs : PendSubscribe(k)
       \/ \E r \in PendReqs : TimerFire(r)
       \/ \E r \in PendReqs : TimerCallback(r)
       \/ \E k \in PendConvs, hasBuf \in BOOLEAN : PendStarted("x", k, hasBuf)
       \/ PendUnsubscribeAgent("x")
       \/ PendCleanup
    /\ UNCHANGED <<pipeVars, promptVars, regVars, srvVars, scrVars, callVars, tailVars,
                   replyVars, watchVars, cmVars, adVars, downVars, flushVars, pumpVars, gateVars, swVars, rmVars, op>>

SpecPending == Init /\ [][NextPending]_vars

\* The manager with the send loop in two steps, for one session.
NextFlusher ==
    /\ \/ (SubscribeExisting("s1") \/ SubscribeFirst("s1")) /\ NoTearDown /\ UNCHANGED flushVars
       \/ \E c \in ChanIds : Unsubscribe("s1", c) /\ UNCHANGED flushVars
       \/ StopAll /\ UNCHANGED flushVars
       \/ \E i \in StreamIds : TailOpen(i) /\ NoTearDown /\ UNCHANGED flushVars
       \/ \E i \in StreamIds, d \in Updates : TailRead(i, d) /\ NoTearDown /\ UNCHANGED flushVars
       \/ \E i \in StreamIds : FlushTake(i) /\ NoTearDown
       \/ \E i \in StreamIds : FlushSend(i) /\ NoTearDown
       \/ \E i \in StreamIds : flTaken[i] = {} /\ TailExit(i) /\ NoTearDown /\ UNCHANGED flushVars
    /\ UNCHANGED atSubscribe
    /\ UNCHANGED <<promptVars, regVars, srvVars, scrVars, callVars, tailVars, replyVars,
                   watchVars, cmVars, adVars, convVars, pendVars, pumpVars, gateVars, swVars, rmVars>>

SpecFlusher == Init /\ [][NextFlusher]_vars

\* The manager when os.Open of the tail file may fail.
NextTailer ==
    /\ \/ NextPipe
       \/ \E i \in StreamIds : TailOpenFails(i) /\ NoTearDown
    /\ UNCHANGED atSubscribe
    /\ UNCHANGED <<promptVars, regVars, srvVars, scrVars, callVars, tailVars, replyVars,
                   watchVars, cmVars, adVars, convVars, pendVars, flushVars, pumpVars, gateVars, swVars, rmVars>>

SpecTailer == Init /\ [][NextTailer]_vars

NextPumps ==
    /\ \/ \E c \in PumpClients : PumpEnqueue(c)
       \/ \E c \in PumpClients : WriteTake(c)
       \/ \E c \in PumpClients : WriteOk(c)
       \/ \E c \in PumpClients : WriteFails(c)
       \/ \E c \in PumpClients : WriteCtxDone(c)
       \/ \E c \in PumpClients : ReadReturns(c, TRUE)
       \/ \E c \in PumpClients : ReadReturns(c, FALSE)
       \/ \E c \in PumpClients : PumpRemoveClient(c)
    /\ UNCHANGED <<pipeVars, promptVars, regVars, srvVars, scrVars, callVars, tailVars,
                   replyVars, watchVars, cmVars, adVars, downVars, convVars, pendVars,
                   flushVars, gateVars, swVars, rmVars, op>>

\* A started write ends (at the latest by its timeout), a read on a closed
\* connection returns, a write pump waiting on a cancelled context returns,
\* and HandleWebSocket's deferred call runs once run() has returned.
PumpsFair ==
    \A c \in PumpClients :
        /\ WF_pumpVars(WriteOk(c) \/ WriteFails(c))
        /\ WF_pumpVars(WriteCtxDone(c))
        /\ WF_pumpVars(ReadReturns(c, TRUE))
        /\ WF_pumpVars(PumpRemoveClient(c))

SpecPumps == Init /\ [][NextPumps]_vars /\ PumpsFair

NextGate ==
    /\ \/ \E c \in Clients : ClientConnect(c) /\ UNCHANGED gateVars
       \/ \E c \in Clients : handleHello(c, TRUE) /\ UNCHANGED gateVars
       \/ \E c \in Clients, valid \in BOOLEAN : handleBinaryMessage(c, valid)
       \/ \E c \in Clients : handleSendPrompt(c)
       \/ \E c \in Clients : writePump(c) /\ UNCHANGED gateVars
    /\ UNCHANGED <<pipeVars, promptVars, scrVars, callVars, tailVars, replyVars, watchVars,
                   cmVars, adVars, downVars, convVars, pendVars, flushVars, pumpVars, swVars, rmVars>>

SpecGate == InitServe /\ [][NextGate]_vars

NextSwitch ==
    /\ \/ \E a \in SwAgents : SwFollow(a)
       \/ \E a \in SwAgents : \E k \in SwConvs(a) : SwStarted(a, k)
       \/ \E a \in SwAgents : \E k \in SwConvs(a) : SwSwitch(a, k)
       \/ \E a \in SwAgents : handleUnsubscribeAgent(a) /\ UNCHANGED swVars
    /\ UNCHANGED <<pipeVars, promptVars, regVars, srvVars, scrVars, callVars, tailVars,
                   replyVars, watchVars, cmVars, adVars, downVars, pendVars, flushVars,
                   pumpVars, gateVars, rmVars, op>>

SpecSwitch == Init /\ [][NextSwitch]_vars

\* Two clients of one server, which is the adapter or the conversation
\* server: they connect, subscribe, follow and leave while lifecycle and
\* conversation events are broadcast and the adapter closes all clients.
InitServers ==
    /\ InitPipe
    /\ InitPrompt
    /\ InitRegistryWith(<<>>, {})
    /\ InitServer
    /\ InitScreen
    /\ InitCalls
    /\ InitTail
    /\ InitWatch
    /\ InitCtrl
    /\ InitAdapter
    /\ InitConv
    /\ InitPend
    /\ InitFlush
    /\ InitPumps
    /\ InitGate
    /\ InitSwitch
    /\ \E kind \in RmKinds : InitRemoval(kind)
    /\ op = NoOp

NextRemoval ==
    /\ \/ \E c \in RmClients : RmConnect(c)
       \/ \E c \in RmClients : RmSubscribeAgents(c)
       \/ \E c \in RmClients : RmFollowAgent(c)
       \/ \E e \in RmEvents(rmKind) : BroadcastLock(e)
       \/ \E c \in RmClients : BroadcastVisit(c)
       \/ BroadcastUnlock
       \/ \E c \in RmClients : RemoveDelete(c)
       \/ \E c \in RmClients : RemoveClose(c)
       \/ CloseAllSnapshot
       \/ \E c \in RmClients : CloseAllDelete(c)
       \/ CloseAllClose
       \/ CloseAllReturn
    /\ UNCHANGED <<pipeVars, promptVars, regVars, srvVars, scrVars, callVars, tailVars,
                   replyVars, watchVars, cmVars, adVars, downVars, convVars, pendVars,
                   flushVars, pumpVars, gateVars, swVars, op>>

SpecRemoval == InitServers /\ [][NextRemoval]_vars

(***************************************************************************)
(* Claims about the pipe-pane manager (checked under Spec)                 *)
(***************************************************************************)
HasSubscribedStream(s) == streams[s] # 0 /\ subscribers[streams[s]] # {}

FlushedBuf(c, u) ==
    IF Len(chanBuf[c]) < ChanCap THEN Append(chanBuf[c], u) ELSE chanBuf[c]

C3_FlushStep ==
    (op'.name = "Flush" /\ op'.ok) =>
        \A c \in subscribers[op'.c] : chanBuf'[c] = FlushedBuf(c, pending[op'.c])

C3_Bounded == \A c \in ChanIds : Len(chanBuf[c]) <= ChanCap

C3_NeverBlocks == \A i \in StreamIds : tailer[i] = "running" => ENABLED Flush(i)

\* C3: a flush tick offers the pending update to every subscriber channel of
\* the stream without waiting: a channel with room gets it appended, a full
\* channel is left as it is (only that subscriber loses the update), the tick
\* is enabled whatever the channels hold, and no channel ever holds more than
\* its capacity.
C3_SlowConsumerIsolation ==
    /\ [][C3_FlushStep]_vars
    /\ [](C3_Bounded /\ C3_NeverBlocks)

\* C3 witness: the last flush was dropped for a full subscriber c1 and taken by
\* another subscriber c2 of the same stream that had room.
C3_Witness ==
    /\ op.name = "Flush" /\ op.ok
    /\ \E c1 \in op.drop, c2 \in subscribers[op.c] \ op.drop :
          /\ Len(chanBuf[c1]) = ChanCap
          /\ chanBuf[c2] # <<>>

C4_UnsubscribeStep ==
    (op'.name = "Unsubscribe" /\ streams[op'.s] # 0) =>
        LET s == op'.s
            c == op'.c
            i == streams[s]
        IN  IF subscribers[i] = {c}
            THEN /\ streams'[s] = 0
                 /\ i \in cancelled'
                 /\ s \notin pipeActive'
                 /\ c \in chanClosed'
                 /\ s \notin files'
            ELSE /\ chanClosed' = (IF c \in subscribers[i] THEN chanClosed \cup {c}
                                                         ELSE chanClosed)
                 /\ subscribers' = [subscribers EXCEPT ![i] = @ \ {c}]
                 /\ UNCHANGED <<streams, cancelled, pipeActive, files, tailer>>

SameAgent(r1, r2) == reqAgent[r1] # "" /\ reqAgent[r1] = reqAgent[r2]

\* No call of another operation on the same agent lies between two calls of
\* one operation.
C2_NoInterleaving ==
    \A a \in Agents : \A i, j, k \in 1..Len(ctrlLog[a]) :
        (i < j /\ j < k /\ ctrlLog[a][i].r = ctrlLog[a][k].r
           /\ SameAgent(ctrlLog[a][i].r, ctrlLog[a][j].r))
        => ctrlLog[a][j].r = ctrlLog[a][i].r

C2_SameMutexPerAgent ==
    \A r1, r2 \in ReqIds :
        (lockOf[r1] # NoLock /\ lockOf[r2] # NoLock)
        => (lockOf[r1] = lockOf[r2] <=> reqAgent[r1] = reqAgent[r2])

C2_HeldThroughout ==
    \A r \in ReqIds :
        pc[r] \in {"running", "returning", "replied"} => holder[lockOf[r]] = r

\* C2: two send-prompt or file-upload operations on the same agent never
\* interleave their control-channel calls; GetLock gives the same mutex for
\* the same agent name (and another one for another name), and an operation
\* holds it from before its first call until after its last.
C2_PerAgentSerialization ==
    C2_NoInterleaving /\ C2_SameMutexPerAgent /\ C2_HeldThroughout

\* C2 witness: a prompt and an upload for the same agent, from different
\* clients, were in flight together: the second to arrive got the mutex first
\* and completed all its calls while the first was blocked, and the first then
\* ran its own calls.
C2_Witness ==
    \E r1, r2 \in ReqIds :
        /\ SameAgent(r1, r2) /\ r1 < r2 /\ ClientOf(r1) # ClientOf(r2)
        /\ reqKind[r1] # reqKind[r2]
        /\ pc[r2] = "done" /\ stepIdx[r2] = 3
        /\ pc[r1] = "running" /\ stepIdx[r1] = 2
        /\ Len(ctrlLog[reqAgent[r1]]) = 5
        /\ ctrlLog[reqAgent[r1]][1].r = r2 /\ ctrlLog[reqAgent[r1]][5].r = r1


(***************************************************************************)
(* C5                                                                      *)
(***************************************************************************)
\* The sessions of the listing w that the registry must export.
C5_Expected(w) ==
    {n \in Names :
        /\ w[n].st = "ok"
        /\ DetectRuntime(w[n].cmd) # ""
        /\ n \notin skip
        /\ \/ workDirFilter = <<>>
           \/ w[n].wd = workDirFilter
           \/ /\ Len(w[n].wd) > Len(workDirFilter)
              /\ SubSeq(w[n].wd, 1, Len(workDirFilter) + 1) = workDirFilter \o <<"/">>}

C5_ScanStep ==
    /\ op'.name = "ScanBegin" =>
          /\ DOMAIN newAgents' = C5_Expected(op'.world)
          /\ \A n \in DOMAIN newAgents' :
                /\ newAgents'[n].workDir = op'.world[n].wd
                /\ newAgents'[n].attached = op'.world[n].att
    /\ op'.name = "ScanEnd" =>
          /\ agents' = newAgents
          /\ {x.name : x \in GetAgents'} = DOMAIN newAgents
          /\ \A n \in Names : GetAgent(n)' <=> n \in DOMAIN newAgents
          /\ Count' = Cardinality(DOMAIN newAgents)
    /\ op'.name = "ScanListFails" => agents' = agents

C5_GtExamples ==
    workDirFilter = PathGt =>
        \A n \in DOMAIN agents : agents[n].workDir \in {PathGt, PathGtWork}

\* C5: after every successful scan the exported set (GetAgents, GetAgent,
\* Count) is exactly the listed sessions whose pane info was fetched, whose
\* runtime is non-empty, that are not skipped and whose workDir passes the
\* filter (empty filter, equal, or filter + separator a prefix); with filter
\* /g the registry holds /g and /g/w but never /g-o.
C5_ExportedSetIsFilteredListing == [][C5_ScanStep]_vars /\ []C5_GtExamples

C5_Witness ==
    /\ op.name = "ScanEnd"
    /\ workDirFilter = PathGt
    /\ DOMAIN agents = {"a", "b"}
    /\ agents["a"].workDir = PathGtWork
    /\ agents["b"].workDir = PathGt
    /\ Count = 2

(***************************************************************************)
(* C6                                                                      *)
(***************************************************************************)
C6_Times(p, type, n) == Cardinality({i \in DOMAIN p : p[i].type = type /\ p[i].name = n})

C6_Mutated(old, new) ==
    {n \in DOMAIN old \cap DOMAIN new :
        \/ old[n].runtime # new[n].runtime
        \/ old[n].workDir # new[n].workDir
        \/ old[n].attached # new[n].attached}

C6_Exact(old, new, p) ==
    /\ \A n \in Names :
          /\ C6_Times(p, "added", n) = IF n \in DOMAIN new \ DOMAIN old THEN 1 ELSE 0
          /\ C6_Times(p, "removed", n) = IF n \in DOMAIN old \ DOMAIN new THEN 1 ELSE 0
          /\ C6_Times(p, "updated", n) = IF n \in C6_Mutated(old, new) THEN 1 ELSE 0
    /\ Len(p) = Cardinality((DOMAIN new \ DOMAIN old) \cup (DOMAIN old \ DOMAIN new))
                 + Cardinality(C6_Mutated(old, new))

C6_ScanStep ==
    /\ op'.name = "ScanBegin" => C6_Exact(agents, newAgents', plan') /\ emitIdx' = 0
    /\ op'.name = "EmitOne" =>
          /\ op'.ev = plan[emitIdx + 1]
          /\ emitIdx' = emitIdx + 1
          /\ plan' = plan
    /\ op'.name = "ScanEnd" => emitIdx = Len(plan) /\ C6_Exact(agents, newAgents, plan)

\* C6: a successful scan emits exactly one added per name only in the new
\* map, one removed per name only in the previous map, one updated per name in
\* both whose runtime, workDir or attached differs, and nothing for an
\* unchanged agent; the number of events is the size of the symmetric
\* difference plus the number of mutated agents.
C6_EventsAreTheDiff == [][C6_ScanStep]_vars

C6_Witness ==
    /\ scanning
    /\ Len(plan) = 2
    /\ emitIdx = 2
    /\ plan[1].type = "added"
    /\ plan[2].type = "updated"
    /\ agents[plan[2].name].attached # newAgents[plan[2].name].attached

(***************************************************************************)
(* C9                                                                      *)
(***************************************************************************)
C9_Rank(type) == CASE type = "removed" -> 0 [] type = "added" -> 1 [] OTHER -> 2

\* C9: within one scan every removed event is emitted before every added
\* event, and every added before every updated (events are emitted in the
\* order of the scan's list).
C9_RemovedAddedUpdated ==
    \A i, j \in DOMAIN plan : i < j => C9_Rank(plan[i].type) <= C9_Rank(plan[j].type)

C9_Witness ==
    /\ scanning
    /\ Len(plan) = 2
    /\ emitIdx = 2
    /\ plan[1].type = "removed"
    /\ plan[2].type = "added"

C8_Unfiltered == {c \in clients : subscribedAgents[c] /\ c \notin everFiltered}

C10_WriteStep ==
    op'.name = "Write" =>
        LET after == [y \in Ys |-> renderRow(term', y)]
            diff == {y \in Ys : after[y] # prevRows[y]}
        IN  /\ term' = Feed(term, op'.data)
            /\ IF diff = {}
               THEN ret' = NilUpdate
               ELSE /\ ~ret'.nil
                    /\ DOMAIN ret'.rows = diff
                    /\ \A y \in diff : ret'.rows[y] = after[y]
                    /\ ret'.cursorRow = term'.cy
                    /\ ret'.cursorCol = term'.cx
            /\ prevRows' = after

\* C10: Write(data) returns an update whose rows are exactly the rows whose
\* rendering after the write differs from the cached baseline before it, each
\* with its new string, together with the cursor after the write; it returns
\* nil when no row differs, also when only the cursor moved; the baseline
\* becomes the new rendering.
C10_WriteReturnsChangedRows == [][C10_WriteStep]_vars

C10_Witness ==
    /\ op.name = "Write"
    /\ ~ret.nil
    /\ DOMAIN ret.rows = {1}
    /\ prevRows[0] # << >>
    /\ ret.rows[1] = <<" ", "ESC", "[", "3", "1", "m", "x", "ESC", "[", "0", "m">>
    /\ ret.cursorRow = 1
    /\ ret.cursorCol = 1


(***************************************************************************)
(* C11                                                                     *)
(***************************************************************************)
C11_Synced == \A y \in Ys : prevRows[y] = renderRow(term, y)

C11_ReturnStep ==
    op'.name = "Return" =>
        /\ C11_Synced'
        /\ (op'.call.kind = "Write" /\ op'.call.data = << >>) => ret' = NilUpdate
        /\ op'.call.kind = "Snapshot" =>
              \A y \in Ys : renderRow(term', y) # << >> =>
                  y \in DOMAIN ret'.rows /\ ret'.rows[y] = renderRow(term', y)

\* C11: whenever a Write or Snapshot returns, under any interleaving of
\* concurrent calls, the baseline prevRows[y] is the current rendering of
\* every row y; so a Write of empty data returns nil and a Snapshot holds
\* every row whose rendering is not empty.
C11_BaselineIsCurrentRendering == [][C11_ReturnStep]_vars

C11_Witness ==
    /\ op.name = "Return"
    /\ op.call.kind = "Write"
    /\ op.call.data = << >>
    /\ ret = NilUpdate
    /\ prevRows[0] # << >>
    /\ \E k \in Callers : scrPc[k] = "lock" /\ scrArg[k].kind = "Write"


C13_RecvStep(c) ==
    (tlChan[c] # << >> /\ tlChan'[c] = Tail(tlChan[c])) =>
        \A y \in DOMAIN Head(tlChan[c]).ver : Head(tlChan[c]).ver[y] >= tlSeen[c][y]

\* C13: whenever a subscriber receives an update, the content it carries
\* for a row is never older than the content any update received earlier on
\* the same channel carried for that row.
C13_UpdatesInEmissionOrder == [][\A c \in TailChans : C13_RecvStep(c)]_vars

\* An update with the first change of row 0 was received, and one with its
\* second change is the next to be received.
C13_Witness ==
    /\ tlSeen["c1"][0] = 1
    /\ tlChan["c1"] # << >>
    /\ 0 \in DOMAIN Head(tlChan["c1"]).ver
    /\ Head(tlChan["c1"]).ver[0] = 2

(***************************************************************************)
(* C14                                                                     *)
(***************************************************************************)
\* Nothing is on its way to subscriber c: no update unmerged, pending or
\* taken, and its channel is drained.
C14_Drained(c) ==
    /\ tlUpd.nil
    /\ tlPending.nil
    /\ tlTaken.nil
    /\ tlChan[c] = << >>

\* C14: once a subscriber has drained its channel and nothing more is on its
\* way, the row map it holds (snapshot overlaid with every received update
\* in order) equals the Screen's current rendered rows, also when updates
\* for it were dropped.
C14_DrainedViewIsScreen ==
    \A c \in tlSubs : C14_Drained(c) => tlView[c] = Rendered(term)


(***************************************************************************)
(* C15                                                                     *)
(***************************************************************************)
C15_AcquireStep ==
    (op'.name = "Acquire" /\ reqKind[op'.r] = "prompt") =>
        \A q \in ReqIds :
            (q < op'.r /\ reqKind[q] = "prompt" /\ reqAgent[q] = reqAgent[op'.r])
            => pc[q] # "waiting"

\* C15: a send-prompt request acquires the agent lock only when no
\* send-prompt request for the same agent that arrived before it is still
\* waiting for the lock: injections start in arrival order.
C15_InjectedInArrivalOrder == [][C15_AcquireStep]_vars

(***************************************************************************)
(* C16                                                                     *)
(***************************************************************************)
C16_Finished(r) == pc[r] \in {"replied", "done"}

\* The place in the agent's call log of the last call of request r.
C16_LastCall(a, r) ==
    CHOOSE i \in DOMAIN ctrlLog[a] :
        /\ ctrlLog[a][i].r = r
        /\ \A j \in DOMAIN ctrlLog[a] : ctrlLog[a][j].r = r => j <= i

C16_ReplyAfterInjection ==
    \A a \in Agents : \A i \in DOMAIN replyLog[a] :
        LET m == replyLog[a][i]
        IN  m.type = "send-prompt" =>
              /\ m.id \in ReqIds
              /\ reqAgent[m.id] = a
              /\ C16_Finished(m.id)
              /\ m.ok = ~failed[m.id]
              /\ \A j \in DOMAIN replyLog[a] : replyLog[a][j].id = m.id => j = i

C16_InCompletionOrder ==
    \A a \in Agents : \A i, j \in DOMAIN replyLog[a] :
        (i < j /\ replyLog[a][i].type = "send-prompt" /\ replyLog[a][j].type = "send-prompt")
        => C16_LastCall(a, replyLog[a][i].id) < C16_LastCall(a, replyLog[a][j].id)

\* C16: every send-prompt reply enqueued echoes the id of a request whose
\* injection has finished, says ok exactly when the injection succeeded, is
\* the only reply to that request, and the replies for one agent are in the
\* order in which their injections completed.
C16_RepliesFollowInjections == C16_ReplyAfterInjection /\ C16_InCompletionOrder

\* The second request got the lock first and failed, the first then
\* succeeded: the replies are ok:false for 2, then ok:true for 1.
C16_Witness ==
    /\ Len(replyLog["X"]) = 2
    /\ replyLog["X"][1] = [id |-> 2, type |-> "send-prompt", ok |-> FALSE]
    /\ replyLog["X"][2] = [id |-> 1, type |-> "send-prompt", ok |-> TRUE]

(***************************************************************************)
(* C17                                                                     *)
(***************************************************************************)
\* The calls of request r, in the order the control channel saw them.
C17_CallsOf(r) ==
    LET Mine(e) == e.r = r
    IN  SelectSeq(ctrlLog[reqAgent[r]], Mine)

C17_Rank(call) ==
    CASE call \in {"literal", "paste"} -> 0
      [] call = "Escape" -> 1
      [] call = "Enter" -> 2
      [] call = "shrink" -> 3
      [] call = "restore" -> 4

C17_Enters(s) == {i \in DOMAIN s : s[i].call = "Enter"}

C17_Sequence(r) ==
    LET s == C17_CallsOf(r)
    IN  /\ \A i \in DOMAIN s : i = 1 <=> C17_Rank(s[i].call) = 0
        /\ \A i, j \in DOMAIN s : i < j => C17_Rank(s[i].call) <= C17_Rank(s[j].call)
        /\ Cardinality({i \in DOMAIN s : s[i].call = "Escape"}) <= 1
        /\ (C17_Enters(s) # {}) => \E i \in DOMAIN s : s[i].call = "Escape"
        /\ Cardinality(C17_Enters(s)) <= 3
        /\ \A i, j \in C17_Enters(s) : i < j => ~s[i].ok
        /\ \A i \in DOMAIN s : s[i].call = "shrink" =>
              /\ i > 1 /\ s[i - 1].call = "Enter" /\ s[i - 1].ok /\ ~s[i - 1].att
        /\ \A i \in DOMAIN s : s[i].call = "restore" => i > 1 /\ s[i - 1].call = "shrink"
        /\ (C16_Finished(r) /\ Cardinality(C17_Enters(s)) = 3
             /\ \A i \in C17_Enters(s) : ~s[i].ok) => failed[r]

\* C17: the calls of every injection are the text, then Escape, then Enter;
\* Enter is attempted at most three times and never again after a success;
\* the wake dance (shrink, then restore) comes only directly after a
\* successful Enter on a session with no attached client; an injection whose
\* three Enter attempts all failed has failed.
C17_PromptSequence == \A r \in ReqIds : reqAgent[r] # "" => C17_Sequence(r)

\* One injection failed after three Enter attempts; another succeeded on a
\* detached session and did the wake dance.
C17_Witness ==
    \E r1, r2 \in ReqIds :
        /\ C16_Finished(r1) /\ failed[r1]
        /\ Cardinality(C17_Enters(C17_CallsOf(r1))) = 3
        /\ C16_Finished(r2) /\ ~failed[r2]
        /\ Len(C17_CallsOf(r2)) = 5
        /\ C17_CallsOf(r2)[5].call = "restore"


(***************************************************************************)
(* C18                                                                     *)
(***************************************************************************)
\* A trigger not yet followed by a scan start is held by the dirty flag of
\* the running scan.
C18_NoTriggerLost == wOwed > 0 => (wScan = "running" /\ wDirty)

\* A completing scan starts exactly one re-run when it is dirty, whatever
\* the number of triggers it coalesced, and none otherwise.
C18_DoneStep ==
    (wScan = "running" /\ wQueue' = wQueue /\ wSent' = wSent) =>
        IF wDirty THEN wStarts' = wStarts + 1 /\ ~wDirty' /\ wOwed' = 0 /\ wScan' = "running"
        ELSE wStarts' = wStarts /\ wScan' = "idle"

\* C18: every sessions-changed or window-renamed notification the watch
\* loop receives is followed by a scan that starts after it; triggers that
\* arrive during a running scan are coalesced into exactly one re-run after
\* that scan completes: no trigger is lost and at most one re-run is pending.
C18_EveryTriggerRescans ==
    /\ []C18_NoTriggerLost
    /\ [][C18_DoneStep]_vars
    /\ (wOwed > 0) ~> (wOwed = 0)
    /\ \A n \in 0..(MaxNotifs + 1) :
          (wQueue # << >> /\ Triggers(Head(wQueue)) /\ wStarts = n) ~> (wStarts > n)

\* After one re-run, two more triggers arrived during the running scan and
\* wait, coalesced, behind its dirty flag.
C18_Witness ==
    /\ wReruns = 1
    /\ wScan = "running"
    /\ wDirty
    /\ wOwed = 2


(***************************************************************************)
(* C19                                                                     *)
(***************************************************************************)
C19_Step ==
    /\ Len(events) <= EventCap /\ Len(events') <= EventCap
    /\ scanning => (ENABLED EmitOne \/ ENABLED ScanEnd)
    /\ op'.name = "EmitOne" =>
          /\ events' = IF Len(events) < EventCap THEN Append(events, op'.ev) ELSE events
          /\ op'.sent = (Len(events) < EventCap)
    /\ op'.name = "ScanEnd" => (agents' = newAgents /\ ~scanning')

\* C19: a scan never waits for room in the events channel: the channel
\* never holds more than its capacity, an event that finds it full is
\* dropped, the scan can always take its next step, and when it returns the
\* stored map is the complete new set whatever was dropped.
C19_ScanNeverBlocks == [][C19_Step]_vars

\* With no consumer a scan found two agents: one added event is buffered,
\* the other was dropped, and both agents are in the stored map.
C19_Witness ==
    /\ op.name = "ScanEnd"
    /\ scans = 1
    /\ Len(events) = EventCap
    /\ droppedAdd # {}
    /\ DOMAIN agents = Names

(***************************************************************************)
(* C20                                                                     *)
(***************************************************************************)
C20_Step ==
    op'.name = "ScanListFails" =>
        /\ op'.ret = "error"
        /\ agents' = agents
        /\ events' = events
        /\ droppedAdd' = droppedAdd
        /\ ~scanning'
        /\ scans = 0 => op'.start = "error"

\* C20: a scan whose ListSessions fails returns the error, sends no event
\* (none buffered, none dropped) and leaves the stored map as it was; when
\* it is the initial scan, Start returns the error.
C20_ListErrorChangesNothing == [][C20_Step]_vars

\* A scan failed at ListSessions while the registry held agents.
C20_Witness ==
    /\ op.name = "ScanListFails"
    /\ op.start = "running"
    /\ agents # << >>
    /\ events # << >>

AdEnqueued(c) == {adSend'[c][i] : i \in (Len(adSend[c]) + 1) .. Len(adSend'[c])}
AdSubscribed(c) == c \in adClients /\ agentSub[c]
\* (include unset or matching) and (exclude unset or not matching).
FilterAccepts(f, n) ==
    /\ f.include = NilRegexp \/ MatchString(f.include, n)
    /\ f.exclude = NilRegexp \/ ~MatchString(f.exclude, n)

\* C22: in every lifecycle broadcast an agents-count message is enqueued to a
\* client exactly when the event is agent-added or agent-removed (never
\* agent-updated) and the client is subscribed to lifecycle events, whatever
\* the client's include / exclude filters.  Enqueueing is the non-blocking
\* send: it adds the message when the queue has room and leaves a full queue
\* as it is.
C22_CountIffSubscribed ==
    [][adEvent' # NoEvent =>
          \A c \in AdClients :
              /\ Msg("agents-count", "") \in AdEnqueued(c)
                    => (adEvent'.type # "agent-updated" /\ AdSubscribed(c))
              /\ (/\ adEvent'.type # "agent-updated" /\ AdSubscribed(c)
                  /\ Len(adSend[c]) < AdSendCap)
                    => Msg("agents-count", "") \in AdEnqueued(c)
              /\ Len(adSend[c]) = AdSendCap => AdEnqueued(c) = {}]_vars

\* C22 witness: agent a was added while w1 was subscribed with filters that
\* reject a: the broadcast put agents-count, and nothing else, in w1's queue.
C22_Witness ==
    /\ adEvent = [type |-> "agent-added", name |-> "a"]
    /\ agentSub["w1"]
    /\ adFilter["w1"] = [include |-> "a", exclude |-> "a"]
    /\ adSend["w1"] = <<Msg("agents-count", "")>>

\* C23: the agent-added, agent-removed or agent-updated message for name N is
\* enqueued to a client exactly when the client is currently subscribed and N
\* passes the client's stored filters: (include unset or matching) and
\* (exclude unset or not matching), exclude winning when both match.
\* Enqueueing is the non-blocking send: the message is added when the queue
\* still has room after the agents-count message that precedes it.
C23_EventIffPassesFilter ==
    [][adEvent' # NoEvent =>
          \A c \in AdClients :
              LET ev == Msg(adEvent'.type, adEvent'.name)
                  before == IF adEvent'.type # "agent-updated" THEN 1 ELSE 0
              IN  /\ ev \in AdEnqueued(c)
                        => (AdSubscribed(c) /\ FilterAccepts(adFilter[c], adEvent'.name))
                  /\ (/\ AdSubscribed(c) /\ FilterAccepts(adFilter[c], adEvent'.name)
                      /\ Len(adSend[c]) + before < AdSendCap)
                        => ev \in AdEnqueued(c)]_vars

\* C23 witness: agent a was removed while w1 (include a, exclude b) and w2 (no
\* filters) were subscribed; w1's queue holds the count and the event, w2's
\* full queue did not take it.
C23_Witness ==
    /\ adEvent = [type |-> "agent-removed", name |-> "a"]
    /\ adFilter["w1"] = [include |-> "a", exclude |-> "b"]
    /\ adSend["w1"] = <<Msg("agents-count", ""), Msg("agent-removed", "a")>>
    /\ agentSub["w2"]
    /\ Len(adSend["w2"]) = AdSendCap
    /\ Msg("agent-removed", "a") \notin {adSend["w2"][i] : i \in DOMAIN adSend["w2"]}

(***************************************************************************)
(* Claims about the conversation server's clients (SpecServe,              *)
(* SpecHandshake)                                                          *)
(***************************************************************************)
\* The messages a step appends to client c's outbound queue.
SrvEnqueued(c) == {send'[c][i] : i \in (Len(send[c]) + 1) .. Len(send'[c])}
LifecycleMsgTypes == EventTypes \cup {"agents-count"}
QueuedTypes(c) == {send[c][i].type : i \in DOMAIN send[c]}

\* C24: a client is sent no lifecycle or agents-count event before the
\* response to its subscribe-agents request, whatever the interleaving with a
\* concurrent registry broadcast: while the handler of a client's first
\* subscribe-agents has not yet enqueued the response, no step enqueues an
\* event for that client.
C24_NoEventBeforeResponse ==
    [][\A c \in Clients :
          replyDue[c] = "first" =>
              {m \in SrvEnqueued(c) : m.type \in LifecycleMsgTypes} = {}]_vars

\* C25: until a hello with the supported protocol has succeeded, every other
\* message is answered with an error and dispatches no handler (nothing of
\* the client's subscription state changes); a hello with another protocol is
\* answered ok:false and leaves the connection un-handshaked; after a
\* successful hello the handshake stays done, no further hello response is
\* sent, and a request answered with an error changes no state.  An answer
\* is enqueued by the non-blocking send.
C25_HandshakeGate ==
    /\ [](\A c \in Clients :
            ~handshakeDone[c] => (~subscribedAgents[c] /\ sessionFilter[c] = NoFilter))
    /\ [][\A c \in Clients :
            (c \in clients /\ c \in clients') =>
               /\ ~handshakeDone[c] =>
                     /\ subscribedAgents'[c] = subscribedAgents[c]
                     /\ sessionFilter'[c] = sessionFilter[c]
                     /\ SrvEnqueued(c) \subseteq
                            {Msg("error", ""), Msg("hello", "ok"), Msg("hello", "unsupported")}
                     /\ Msg("hello", "ok") \in SrvEnqueued(c) => handshakeDone'[c]
                     /\ Msg("hello", "unsupported") \in SrvEnqueued(c) => ~handshakeDone'[c]
                     /\ Msg("error", "") \in SrvEnqueued(c) => ~handshakeDone'[c]
                     /\ (handshakeDone'[c] /\ Len(send[c]) < SendCap)
                            => SrvEnqueued(c) = {Msg("hello", "ok")}
               /\ handshakeDone[c] =>
                     /\ handshakeDone'[c]
                     /\ SrvEnqueued(c) \cap {Msg("hello", "ok"), Msg("hello", "unsupported")} = {}
                     /\ Msg("error", "") \in SrvEnqueued(c)
                            => /\ subscribedAgents'[c] = subscribedAgents[c]
                               /\ sessionFilter'[c] = sessionFilter[c]]_vars

\* C25 witness: c1 sent subscribe-agents before any hello and then a hello
\* with an unsupported protocol: it holds the error and the ok:false answer
\* and is neither handshaked nor subscribed; c2 completed the handshake and a
\* second hello was answered with an error.
C25_Witness ==
    /\ send["c1"] = <<Msg("error", ""), Msg("hello", "unsupported")>>
    /\ ~handshakeDone["c1"]
    /\ ~subscribedAgents["c1"]
    /\ send["c2"] = <<Msg("hello", "ok"), Msg("error", "")>>
    /\ handshakeDone["c2"]

\* C26: enqueueing never blocks.  A queue never holds more than its capacity;
\* whenever an event is waiting the broadcast can run, whatever the state of
\* the clients' queues; in a broadcast a full queue is left as it is (the new
\* message is dropped) and every other subscribed client still receives the
\* agents-count message of the event.
BroadcastStep == events # << >> /\ events' = Tail(events)

C26_EnqueueNeverBlocks ==
    /\ [](\A c \in Clients : Len(send[c]) <= SendCap)
    /\ [](events # << >> => ENABLED Broadcast)
    /\ [][BroadcastStep =>
            \A c \in Clients :
                IF Len(send[c]) = SendCap
                THEN send'[c] = send[c]
                ELSE (c \in clients /\ subscribedAgents[c]
                        /\ WatcherEvent(Head(events)).type # "agent-updated")
                        => Msg("agents-count", "") \in SrvEnqueued(c)]_vars

\* C26 witness: c2, subscribed and never drained, has a full queue that holds
\* no event, while c1's queue holds the count and the event of agent a's
\* arrival.
C26_Witness ==
    /\ subscribedAgents["c2"]
    /\ Len(send["c2"]) = SendCap
    /\ QueuedTypes("c2") \cap LifecycleMsgTypes = {}
    /\ subscribedAgents["c1"]
    /\ send["c1"] = <<Msg("agents-count", ""), Msg("agent-added", "a")>>

(***************************************************************************)
(* Claims about Subscribe / Unsubscribe round trips (SpecManager) and      *)
(* tear-down (Spec)                                                        *)
(***************************************************************************)
\* The last two calls were a successful Subscribe and the Unsubscribe of the
\* channel it returned, on the same session.
RoundTrip ==
    /\ atSubscribe.age = 1
    /\ atSubscribe.ch # 0
    /\ op.name = "Unsubscribe"
    /\ op.s = atSubscribe.s
    /\ op.c = atSubscribe.ch

\* C28: Subscribe(S) immediately followed by Unsubscribe(S, the returned
\* channel) leaves the same set of active streams and the same subscriber
\* sets on the pre-existing streams as before the Subscribe, both when S had
\* no stream and when S already had other subscribers.
C28_RoundTripRestores ==
    RoundTrip =>
        /\ ActiveSessions = atSubscribe.active
        /\ \A s \in Sessions : SubscribersOf(s) = atSubscribe.subs[s]

\* C28 witness: s1 had a stream with subscriber 1 and s2 had none; Subscribe(s2)
\* returned channel 2 and Unsubscribe(s2, 2) followed: s2's stream is gone
\* again and s1's is as it was.
C28_Witness ==
    /\ RoundTrip
    /\ op.s = "s2"
    /\ atSubscribe.active = {"s1"}
    /\ ActiveSessions = {"s1"}
    /\ SubscribersOf("s1") = {1}
    /\ 2 \in chanClosed

\* C29: tear-down is idempotent.  Under any sequence of Unsubscribe (also
\* repeated, or with a channel the stream does not know) and StopAll, every
\* channel Subscribe handed out is either still subscribed and open or has
\* been closed exactly once, and pipe-pane stop and the deletion of the tail
\* file have run at most once per stream.
C29_TearDownOnce ==
    /\ \A c \in ChanIds :
          /\ closes[c] <= 1
          /\ c \in chanClosed <=> closes[c] = 1
          /\ c < nextChan =>
                (closes[c] = 0 <=> \E i \in StreamIds : c \in subscribers[i])
    /\ \A i \in StreamIds : stops[i] <= 1 /\ removes[i] <= 1

\* C29 witness: both streams are torn down, each channel closed once, and the
\* last call was an Unsubscribe of channel 1 on a session that has no stream
\* any more.
C29_Witness ==
    /\ op.name = "Unsubscribe"
    /\ op.c = 1
    /\ streams[op.s] = 0
    /\ \A c \in ChanIds : closes[c] = 1
    /\ \A i \in StreamIds : stops[i] = 1 /\ removes[i] = 1

(***************************************************************************)
(* Claims about a client's conversation subscriptions (SpecConv)           *)
(***************************************************************************)
HeldRefs == tailRefs["x"] + tailRefs["y"]

\* C30: whenever no handler is running, the tailing references the client has
\* acquired and not yet released equal the number of its subscriptions with
\* an agent name plus the number of its pending subscribe-conversation
\* entries; after cleanup the number is zero.
C30_RefsMatchSubscriptions ==
    /\ HeldRefs = Cardinality({s \in cvSubs : s.agentName # ""}) + Cardinality(cvPending)
    /\ ~cvOpen => HeldRefs = 0

\* C27: when the client disconnects it leaves the client set and every
\* subscription it holds is released exactly once: each buffer subscription
\* is unsubscribed, each stream context cancelled, and one tailing reference
\* is returned per subscription with an agent and per pending
\* subscribe-conversation; a follow, present in subs and in follows, is
\* released once.
C27_ReleasedExactlyOnce ==
    [][cvOpen /\ ~cvOpen' =>
          /\ cvSubs' = {} /\ cvPending' = {}
          /\ \A s \in cvSubs :
                /\ cvDown'.released[s.id] = IF s.agentName # "" THEN 1 ELSE 0
                /\ s.bufSubID <=> s.id \in cvDown'.unsubscribed
                /\ s.cancel <=> s.id \in cvDown'.cancelled
          /\ \A a \in ConvAgents :
                tailRefs'[a] = tailRefs[a]
                               - Cardinality({s \in cvSubs : s.agentName = a})
                               - Cardinality({k \in cvPending : extractAgentFromConvID(k) = a})]_vars
C27_Witness ==
    /\ cvDown.done
    /\ ~cvOpen
    /\ cvDown.pending # {}
    /\ \E s \in cvDown.subs :
          /\ s.agentName # ""
          /\ cvDown.follows[s.agentName] = s.id
          /\ s.cancel
          /\ cvDown.released[s.id] = 1

\* C31: a pending subscribe-conversation request is resolved exactly once
\* whatever the interleaving of its timer, conversation-started,
\* unsubscribe-agent and cleanup: one outcome out of snapshot, timeout error,
\* buffer-unavailable error and silent cancellation, at most one answer to
\* the request id, and one release of its tailing reference unless the
\* reference passes to the subscription created for it.
PendingResolvedOnce ==
    \A r \in PendReqs :
        /\ cvAns[r] <= 1
        /\ Cardinality(cvOut[r]) <= 1
        /\ cvRel[r] = IF cvOut[r] \in {{}, {"snapshot"}} THEN 0 ELSE 1
        /\ cvTimer[r] # "idle" => (cvOut[r] = {} <=> LookupPending(cvReqConv[r]) = r)
        /\ cvAns[r] = IF cvOut[r] \cap Answered # {} THEN 1 ELSE 0
RECURSIVE SumUpTo(_, _)
SumUpTo(f, n) == IF n = 0 THEN 0 ELSE f[n] + SumUpTo(f, n - 1)
\* A step that takes no new reference returns exactly the references counted
\* for pending requests and for the subscriptions it removes.
ReleasesAreReal ==
    HeldRefs' <= HeldRefs =>
        HeldRefs - HeldRefs' =
            SumUpTo(cvRel', MaxPend) - SumUpTo(cvRel, MaxPend)
            + Cardinality({s \in cvSubs \ cvSubs' : s.agentName # ""})
C31_PendingResolvedOnce == []PendingResolvedOnce /\ [][ReleasesAreReal]_vars
C31_Witness ==
    /\ \E r \in PendReqs : cvTimer[r] = "done" /\ cvOut[r] = {"snapshot"}
    /\ \E r \in PendReqs : cvTimer[r] = "stopped" /\ cvOut[r] = {"cancelled"}

\* C32: the send loop never sends on a closed subscriber channel: under any
\* interleaving of the tick with Unsubscribe and StopAll, every channel it
\* sends to is open and in the stream's subscriber set at the moment of the
\* send.
C32_NoSendOnClosed ==
    /\ flBad = {}
    /\ \A i \in StreamIds : subscribers[i] \cap chanClosed = {}
C32_Witness ==
    /\ op.name = "FlushSend"
    /\ chanClosed # {}
    /\ \E c \in ChanIds : c \notin chanClosed /\ chanBuf[c] # <<>>

(***************************************************************************)
(* Claims about snapshots and row changes (SpecTail)                       *)
(***************************************************************************)
\* C33: a snapshot taken for a new subscriber never makes a row change go
\* unreported: whenever a Write of the tailer changes the rendering of a row,
\* the row with its new rendering is in the update Write returns, and the
\* reader puts every row of that update into the pending accumulator,
\* whatever Snapshot calls fall between the writes.
C33_NoRowChangeMissed ==
    [][/\ writes' = writes + 1 =>
            \A y \in Ys :
               renderRow(term', y) # renderRow(term, y) =>
                  /\ ~tlUpd'.nil
                  /\ y \in DOMAIN tlUpd'.rows
                  /\ tlUpd'.rows[y] = renderRow(term', y)
       /\ (~tlUpd.nil /\ tlUpd'.nil) =>
            /\ ~tlPending'.nil
            /\ \A y \in DOMAIN tlUpd.rows :
                  y \in DOMAIN tlPending'.rows /\ tlPending'.rows[y] = tlUpd.rows[y]]_vars
C33_Witness ==
    /\ "c2" \in tlSubs
    /\ ~tlPending.nil
    /\ \E y \in DOMAIN tlPending.rows :
          /\ tlVer[y] >= 2
          /\ tlSeen["c2"][y] = 0
          /\ tlView["c2"][y] # << >>
          /\ tlPending.rows[y] # tlView["c2"][y]

\* C34: whenever a stream is in the manager's map, pipe-pane is active for
\* its session and its tailer is running, after any sequence of Subscribe,
\* Unsubscribe and re-Subscribe, also when opening the tail file fails.
C34_StreamHasPipeAndTailer ==
    \A s \in Sessions :
        streams[s] # 0 =>
            /\ s \in pipeActive
            /\ tailer[streams[s]] \in {"starting", "running"}

C35_FailedSubscribeStep ==
    (op'.name = "Subscribe" /\ ~op'.ok) =>
        /\ streams[op'.s] = 0
        /\ UNCHANGED <<streams, nextStream, strSession, subscribers, cancelled, tailer,
                       pending, chanBuf, chanClosed, pipeActive>>
        /\ files' = files \ {op'.s}

\* C35: when creating the tail file or starting pipe-pane fails for a first
\* subscriber, Subscribe reports the error and leaves the manager as it was:
\* no stream registered, no tailer started, and no tail file left behind.
C35_FailedSubscribeChangesNothing == [][C35_FailedSubscribeStep]_vars
C35_Witness ==
    /\ op.name = "Subscribe" /\ ~op.ok
    /\ streams[op.s] = 0 /\ tailer = [i \in StreamIds |-> IF i = 1 THEN "running" ELSE "none"]
    /\ op.s \notin files
    /\ \E s \in Sessions : streams[s] = 1 /\ s \in files

(***************************************************************************)
(* Claims about a client's pumps (SpecPumps)                               *)
(***************************************************************************)
CleanedUp(c) == pmRead[c] = "returned" /\ pmCtx[c] /\ ~pmIn[c] /\ pmCleanups[c] = 1

\* C36: a client's two pumps end together and the client is cleaned up: once
\* the write pump has returned (a failed or timed-out write closed the
\* connection) the read pump returns, the context is cancelled and the
\* client is removed from the server's set with its cleanup run exactly once;
\* once the read pump has returned the write pump returns too.
C36_PumpsEndTogether ==
    /\ [](\A c \in PumpClients : pmCleanups[c] = IF pmIn[c] THEN 0 ELSE 1)
    /\ \A c \in PumpClients : (pmWrite[c] = "returned") ~> CleanedUp(c)
    /\ \A c \in PumpClients : (pmRead[c] = "returned") ~> (pmWrite[c] = "returned" /\ CleanedUp(c))
C36_Witness ==
    /\ CleanedUp("p1") /\ pmWrite["p1"] = "returned" /\ pmSend["p1"] > 0
    /\ pmRead["p2"] = "returned" /\ pmWrite["p2"] = "writing" /\ pmConn["p2"] = "open"

\* C37: no request of a client has a side effect before the client has
\* completed the hello handshake; in particular a binary file-upload frame
\* received before the handshake is not processed.
C37_NoEffectBeforeHandshake ==
    \A e \in uploads \cup prompts : e.handshakeDone

\* A step of an open client that removes exactly the subscription s, which
\* is not the follow registered for its agent.
C38_UnsubscribeStep ==
    \A s \in cvSubs :
        (/\ cvOpen'
         /\ cvSubs' = cvSubs \ {s}
         /\ (s.agentName = "" \/ cvFollows[s.agentName] # s.id)) =>
            cvFollows' = cvFollows

\* C38: an unsubscribe naming one subscription id affects only that
\* subscription: every other subscription, a follow on the same agent
\* included, stays registered in subs and in follows.
C38_UnsubscribeOnlyThat == [][C38_UnsubscribeStep]_vars

\* C39: a follow-agent subscription ends up bound to the agent's current
\* conversation: after the events delivered so far it either streams the
\* current conversation, when that conversation's buffer exists, or is left
\* pending with an empty conversation id, so that the conversation-started
\* event for the current conversation binds it.
C39_FollowTracksCurrent ==
    \A a \in SwAgents : \A s \in SubById(cvFollows[a]) :
        IF cvCurrent[a] \in cvBuf
        THEN s.conversationID = cvCurrent[a] /\ s.bufSubID
        ELSE s.conversationID = ""

(***************************************************************************)
(* C40: once RemoveClient (adapter) or removeClient (conversation server)  *)
(* has returned for a client, no step of a later lifecycle or conversation *)
(* broadcast enqueues a message to that client or changes its              *)
(* subscription maps, whatever the interleaving of broadcasts and          *)
(* removals; and when CloseAll returns, no client having connected since   *)
(* it copied the client set, the server's client set is empty.             *)
(***************************************************************************)
BroadcastVisits ==
    /\ rmEvent # "none"
    /\ rmTodo' # rmTodo
    /\ rmTodo' \subseteq rmTodo

NoLateBroadcast ==
    BroadcastVisits =>
        \A c \in RmClients :
            rmGone[c] => rmSend'[c] = rmSend[c] /\ rmMaps'[c] = rmMaps[c]

CloseAllEmpties ==
    (rmAll.pc = "removing" /\ rmAll'.pc = "done" /\ ~rmJoined) => rmClients' = {}

====
